---- MODULE Spec2Model ----
(***************************************************************************)
(* Provisioning job engine of the hosted-agents control plane:             *)
(*   - the durable provisioning queue (InMemoryProvisioningQueue and       *)
(*     PostgresProvisioningQueue) and its transport wrappers               *)
(*     (StorageQueueProvisioningQueue, ServiceBusProvisioningQueue),       *)
(*   - the provisioning worker (process_next_job),                         *)
(*   - the API operations that write the tenant row (create_tenant,        *)
(*     update_tenant_plan),                                                *)
(*   - the rate limiters, tenant authentication, the monthly quota, the    *)
(*     usage meters and the run endpoint (execute_run),                    *)
(*   - the in-process locks, the JWKS cache (_get_jwks_payload) and the    *)
(*     admin authentication (AdminAuthService).                            *)
(* Every process of Procs is a thread (in-memory backend) or a process     *)
(* sharing the datastore (Postgres backend); a handler is cut into steps   *)
(* at the points where another thread or transaction can interleave.       *)
(***************************************************************************)
EXTENDS Integers, Sequences, FiniteSets, TLC

\* ------------------------------------------------------------- bounds
NumProcs == 2
MaxJobs == 2
MaxAttempts == 2
MaxTime == 0
MaxSignals == 2
MaxClaims == 2
NumTenants == 1
MaxElapsed == 1
MaxRpm == 2
MaxRateTime == 90
RateStep == 30
MaxCalls == 3
NumRateKeys == 1
MaxMessages == 2
MaxTokens == 3
NumUsageTenants == 2
MaxRequests == 2
MaxEvents == 3
MonthLen == 2
NumCredentials == 2
MaxJwksTime == 2
NumPayloads == 2

Procs == 1..NumProcs
JobIds == 1..MaxJobs
TenantIds == 1..NumTenants
PlanIds == {"starter", "growth"}
Backends == {"memory", "postgres"}
Transports == {"database", "storage_queue", "service_bus"}

None == <<"none", 0>>
\* the keys callers use: "<tenant_id>:bootstrap", as POST /v1/tenants and operators do
Keys == {<<"bootstrap", t>> : t \in TenantIds}
NoJob == [job_id |-> 0]
NoTenant == [tenant_id |-> 0]
Terminal == {"done", "dead_letter"}
NoCall == [op |-> "none"]
Returned(op, id, result) == [op |-> op, id |-> id, result |-> result]

Max2(a, b) == IF a >= b THEN a ELSE b
Max3(a, b, c) == Max2(Max2(a, b), c)

\* the limiter's window: int(time.time() // 60)
WindowSeconds == 60
RateKeys == 1..NumRateKeys
Windows == 0..(MaxRateTime \div WindowSeconds)
LimiterBackends == {"memory", "redis"}
NoCounter == [window |-> -1, count |-> 0]
NoTTL == -1
NoRedisKey == [count |-> 0, expires_at |-> NoTTL]
NoRateCall == [key |-> 0]

\* plans, settings and credentials of the run admission pipeline
PlanNames == PlanIds \cup {"custom"}
NoPlan == [plan_id |-> "none"]
AuthTenants == 1..(NumTenants + 1)
Credentials == 0..NumCredentials            \* 0 is the empty string
JwksSettings == {"off", "partial", "full"}
Environments == {"dev", "prod", "PROD", "production", " Production ", "preprod"}
NoToken == [signer |-> "none"]
Tokens == [signer : {"secret", "jwks", "forged"},
           tenant_id : {0} \cup AuthTenants, subject : Credentials]
NoAuth == [status |-> 0]
NoQuota == [result |-> "none"]
NoRun == [status |-> 0]
NoCacheEntry == [payload |-> 0]
NoJwksCall == [payload |-> 0]
Unlocked == 0

RECURSIVE Pow2(_)
Pow2(n) == IF n <= 0 THEN 1 ELSE 2 * Pow2(n - 1)

VARIABLES
    backend,                \* "memory" | "postgres": the durable store in use
    transport,              \* "database" | "storage_queue" | "service_bus"
    default_max_attempts,   \* settings.provisioning_job_max_attempts of the worker
    retry_base_seconds,     \* settings.provisioning_retry_base_seconds
    now,                    \* the clock, datetime.now(timezone.utc)
    jobs,                   \* job_id -> stored ProvisioningJob, or NoJob
    job_order,              \* InMemoryProvisioningQueue._job_order
    tenants,                \* tenant_id -> stored Tenant, or NoTenant
    signals,                \* visible messages on the bus queue
    hidden,                 \* received, undeleted storage-queue messages
    inflight,               \* StorageQueueProvisioningQueue._inflight (its keys)
    pc,                     \* position of each process in its handler
    job,                    \* each process's local job object
    tenant,                 \* each process's local tenant object
    req,                    \* each process's request argument (a plan id)
    msg,                    \* each process holds a received bus message
    hist,                   \* per job: callers that received it, requeues
    last,                   \* the call that returned in the last step, if any
    rate_limit_backend,     \* "memory" | "redis": the limiter in use
    default_rate_limit_rpm, \* settings.default_rate_limit_rpm
    fail_open,              \* settings.rate_limit_redis_fail_open
    counters,               \* FixedWindowRateLimiter._counters
    redis,                  \* the Redis keys of the limiter: count and expiry
    call,                   \* each process's locals inside allow(key)
    rate_hist,              \* per key and window: calls begun, granted, denied
    plans,                  \* plan_id -> stored Plan, or NoPlan
    settings,               \* the Settings read by TenantAuthService
    events,                 \* the stored usage events, in arrival order
    quota,                  \* arguments and result of an allow_request call
    auth,                   \* arguments and outcome of an authenticate call
    run,                    \* the last run request and its response
    locks,                  \* holder of FixedWindowRateLimiter._lock and _JWKS_CACHE_LOCK
    jwks_cache,             \* _JWKS_CACHE[jwks_url]: (expires_at, payload), or none
    jwks_call               \* each process's locals inside _get_jwks_payload

vars == <<backend, transport, default_max_attempts, retry_base_seconds, now,
          jobs, job_order, tenants, signals, hidden, inflight,
          pc, job, tenant, req, msg, hist, last,
          rate_limit_backend, default_rate_limit_rpm, fail_open,
          counters, redis, call, rate_hist,
          plans, settings, events, quota, auth, run,
          locks, jwks_cache, jwks_call>>

config == <<backend, transport, default_max_attempts, retry_base_seconds>>
bus == <<signals, hidden, inflight>>
locals == <<pc, job, tenant, req, msg>>
limiter == <<rate_limit_backend, default_rate_limit_rpm, fail_open,
             counters, redis, call, rate_hist>>

admission == <<plans, settings, events, quota, auth, run>>
inprocess == <<locks, jwks_cache, jwks_call>>

Wrapped == transport # "database"

Construction ==
    /\ backend \in Backends
    /\ transport \in Transports
    /\ default_max_attempts \in 1..MaxAttempts
    /\ retry_base_seconds \in {0, 1}
    /\ now = 0
    /\ jobs = [j \in JobIds |-> NoJob]
    /\ job_order = <<>>
    /\ tenants = [t \in TenantIds |-> NoTenant]
    /\ signals = 0
    /\ hidden = 0
    /\ inflight = {}
    /\ pc = [p \in Procs |-> "idle"]
    /\ job = [p \in Procs |-> NoJob]
    /\ tenant = [p \in Procs |-> NoTenant]
    /\ req = [p \in Procs |-> "none"]
    /\ msg = [p \in Procs |-> FALSE]
    /\ hist = [j \in JobIds |-> [claims |-> 0, requeues |-> 0, recv |-> 0]]
    /\ last = NoCall
    /\ rate_limit_backend \in LimiterBackends
    /\ default_rate_limit_rpm \in 0..MaxRpm
    /\ fail_open \in BOOLEAN
    /\ counters = [k \in RateKeys |-> NoCounter]
    /\ redis = [w \in Windows |-> [k \in RateKeys |-> NoRedisKey]]
    /\ call = [p \in Procs |-> NoRateCall]
    /\ rate_hist = [k \in RateKeys |-> [w \in Windows |->
                      [calls |-> 0, granted |-> 0, inside |-> 0, denied |-> 0]]]
    /\ locks = [limiter |-> Unlocked, jwks |-> Unlocked]
    /\ jwks_cache = NoCacheEntry
    /\ jwks_call = [p \in Procs |-> NoJwksCall]

\* _default_plans as _seed_default_plans stores them in an empty catalog
default_plans ==
    [n \in PlanNames |->
        IF n = "starter"
        THEN [plan_id |-> n, active |-> TRUE,
              monthly_messages |-> 5000, monthly_token_cap |-> 2000000]
        ELSE IF n = "growth"
        THEN [plan_id |-> n, active |-> TRUE,
              monthly_messages |-> 25000, monthly_token_cap |-> 10000000]
        ELSE NoPlan]

\* load_settings with no authentication variable set
default_settings ==
    [tenant_api_keys |-> [t \in AuthTenants |-> 0],
     jwt_shared_secret |-> FALSE, jwks |-> "off", app_env |-> "dev"]

\* the admission pipeline of a default deployment that served no request
AdmissionDefault ==
    /\ plans = default_plans
    /\ settings = default_settings
    /\ events = <<>>
    /\ quota = NoQuota
    /\ auth = NoAuth
    /\ run = NoRun

Init == Construction /\ AdmissionDefault

\* the limiter settings of a deployment that takes no part in a behaviour
LimiterDefault ==
    /\ rate_limit_backend = "memory"
    /\ default_rate_limit_rpm = 1
    /\ fail_open

\* the queue settings of a deployment that takes no part in a behaviour
QueueDefault ==
    /\ backend = "memory"
    /\ transport = "database"
    /\ default_max_attempts = 1
    /\ retry_base_seconds = 0

Stored(j) == jobs[j] # NoJob
StoredJobs == {j \in JobIds : Stored(j)}

\* The clock advances; past MaxTime only while a retry is still scheduled.
Tick ==
    /\ \/ now < MaxTime
       \/ \E j \in StoredJobs : jobs[j].state = "queued" /\ jobs[j].available_at > now
    /\ now' = now + 1
    /\ last' = NoCall
    /\ UNCHANGED <<config, inprocess, limiter, admission, jobs, job_order, tenants, bus, locals, hist>>

\* ------------------------------------------------- the durable queue
\* job.idempotency_key or job.job_id
EffectiveKey(j) ==
    IF j.idempotency_key = None THEN <<"id", j.job_id>> ELSE j.idempotency_key

\* (mutant of KeyExists: only jobs still waiting in the queue are looked up)
KeyExistsQueuedOnly(k) ==
    \E i \in StoredJobs : jobs[i].idempotency_key = k /\ jobs[i].state = "queued"

\* enqueue: a stored row with this idempotency key, in whatever state
KeyExists(k) == \E i \in StoredJobs : jobs[i].idempotency_key = k

\* InMemoryProvisioningQueue.enqueue: the copy that is stored
memory_queued(j) ==
    [j EXCEPT !.idempotency_key = EffectiveKey(j), !.state = "queued"]

\* PostgresProvisioningQueue.enqueue: the row that is inserted
postgres_row(j) ==
    [j EXCEPT !.idempotency_key = EffectiveKey(j),
              !.state = "queued",
              !.max_attempts = Max2(j.max_attempts, 1),
              !.created_at = now]

Eligible(j) ==
    /\ Stored(j)
    /\ jobs[j].state = "queued"
    /\ jobs[j].available_at <= now

Index(j) == CHOOSE i \in 1..Len(job_order) : job_order[i] = j

\* InMemoryProvisioningQueue.claim_next: first eligible job of the stable sort
\* of _job_order by available_at
memory_claim_next ==
    {j \in JobIds : /\ Eligible(j)
                    /\ \A k \in JobIds : Eligible(k) =>
                          \/ jobs[j].available_at < jobs[k].available_at
                          \/ /\ jobs[j].available_at = jobs[k].available_at
                             /\ Index(j) <= Index(k)}

\* PostgresProvisioningQueue.claim_next: ORDER BY available_at, created_at LIMIT 1
postgres_claim_next ==
    {j \in JobIds : /\ Eligible(j)
                    /\ \A k \in JobIds : Eligible(k) =>
                          \/ jobs[j].available_at < jobs[k].available_at
                          \/ /\ jobs[j].available_at = jobs[k].available_at
                             /\ jobs[j].created_at <= jobs[k].created_at}

mark_done(js, id) ==
    IF js[id] = NoJob THEN js ELSE [js EXCEPT ![id].state = "done"]

mark_retry(js, id, error, retry_in_seconds) ==
    IF js[id] = NoJob THEN js
    ELSE [js EXCEPT ![id].state = "queued",
                    ![id].retries = @ + 1,
                    ![id].error = error,
                    ![id].available_at = now + Max2(retry_in_seconds, 0)]

mark_dead_letter(js, id, error) ==
    IF js[id] = NoJob THEN js
    ELSE [js EXCEPT ![id].state = "dead_letter",
                    ![id].retries = @ + 1,
                    ![id].error = error]

get_job(id) == jobs[id]

\* ------------------------------------------------- the tenant catalog
upsert_tenant(ts, tn) == [ts EXCEPT ![tn.tenant_id] = tn]

get_tenant(t) == tenants[t]

\* The object a local tenant variable denotes: InMemoryTenantCatalog.get_tenant
\* returns the stored object itself, PostgresTenantCatalog.get_tenant a copy.
LocalTenant(p) ==
    IF backend = "memory" THEN tenants[tenant[p].tenant_id] ELSE tenant[p]

\* ------------------------------------------------- history
\* claims: callers that received the job from claim_next; requeues: its
\* running -> queued transitions; recv: callers that received it since the
\* last mark_* on it.
Recount(js, claimed, marked) ==
    [j \in JobIds |->
        [claims |-> hist[j].claims + (IF j = claimed THEN 1 ELSE 0),
         requeues |-> hist[j].requeues +
            (IF /\ jobs[j] # NoJob
                /\ jobs[j].state = "running"
                /\ js[j].state = "queued" THEN 1 ELSE 0),
         recv |-> IF j = marked THEN 0
                  ELSE hist[j].recv + (IF j = claimed THEN 1 ELSE 0)]]

\* ------------------------------------------------- enqueue
IdInUse(j) == Stored(j) \/ \E q \in Procs : pc[q] \in {"enq_scan", "enq_insert"} /\ job[q].job_id = j

\* A job object as a caller builds it: job ids are UUIDs, so a submitted id is
\* neither stored nor in another caller's hands.
Submitted ==
    {[job_id |-> j, tenant_id |-> t, idempotency_key |-> k, state |-> "queued",
      retries |-> 0, max_attempts |-> m, error |-> "none",
      available_at |-> now, created_at |-> now] :
        j \in {i \in JobIds : ~IdInUse(i)}, t \in TenantIds,
        k \in Keys \cup {None}, m \in 1..MaxAttempts}

KeyedSubmitted == {j \in Submitted : j.idempotency_key # None}

BusRoom == ~Wrapped \/ signals + hidden < MaxSignals

\* a caller hands a job to queue.enqueue
EnqueueCall(p, j) ==
    /\ pc[p] = "idle"
    /\ BusRoom
    /\ pc' = [pc EXCEPT ![p] = "enq_scan"]
    /\ job' = [job EXCEPT ![p] = j]
    /\ last' = NoCall
    /\ UNCHANGED <<config, inprocess, limiter, admission, now, jobs, job_order, tenants, bus, tenant, req, msg, hist>>

\* the plan test of create_tenant with the active flag left out
plan_known(plan) == plans[plan] # NoPlan

\* selected_plan is not None and selected_plan.active
plan_selectable(plan) == plans[plan] # NoPlan /\ plans[plan].active

\* POST /v1/tenants: the plan test, the tenant row, then the bootstrap job
create_tenant(p, t, plan, j) ==
    /\ pc[p] = "idle"
    /\ IF ~plan_selectable(plan)
       THEN /\ last' = Returned("create_tenant", plan, 400)
            /\ UNCHANGED <<tenants, pc, job>>
       ELSE /\ BusRoom
            /\ tenants[t] = NoTenant
            /\ ~IdInUse(j)
            /\ tenants' = upsert_tenant(tenants,
                             [tenant_id |-> t, plan |-> plan, status |-> "pending"])
            /\ pc' = [pc EXCEPT ![p] = "enq_scan"]
            /\ job' = [job EXCEPT ![p] =
                         [job_id |-> j, tenant_id |-> t,
                          idempotency_key |-> <<"bootstrap", t>>, state |-> "queued",
                          retries |-> 0, max_attempts |-> default_max_attempts,
                          error |-> "none", available_at |-> now, created_at |-> now]]
            /\ last' = NoCall
    /\ UNCHANGED <<config, inprocess, limiter, admission, now, jobs, job_order, bus, tenant, req, msg, hist>>

\* the wrapper's _send_signal after the delegate returned
SignalSent == IF Wrapped THEN signals + 1 ELSE signals

\* enqueue: the lookup of the idempotency key
EnqueueScan(p) ==
    /\ pc[p] = "enq_scan"
    /\ IF KeyExists(EffectiveKey(job[p]))
       THEN /\ pc' = [pc EXCEPT ![p] = "idle"]
            /\ job' = [job EXCEPT ![p] = NoJob]
            /\ signals' = SignalSent
            /\ last' = Returned("enqueue", job[p].job_id, "duplicate")
       ELSE /\ pc' = [pc EXCEPT ![p] = "enq_insert"]
            /\ last' = NoCall
            /\ UNCHANGED <<job, signals>>
    /\ UNCHANGED <<config, inprocess, limiter, admission, now, jobs, job_order, tenants, hidden, inflight,
                   tenant, req, msg, hist>>

\* enqueue: the write. The Postgres insert fails on the unique index (and the
\* primary key) when a concurrent transaction committed the key first.
EnqueueInsert(p) ==
    /\ pc[p] = "enq_insert"
    /\ LET j == job[p] IN
       IF backend = "memory"
       THEN /\ jobs' = [jobs EXCEPT ![j.job_id] = memory_queued(j)]
            /\ job_order' = Append(job_order, j.job_id)
            /\ signals' = SignalSent
            /\ last' = Returned("enqueue", j.job_id, "stored")
       ELSE IF KeyExists(EffectiveKey(j)) \/ Stored(j.job_id)
       THEN /\ last' = Returned("enqueue", j.job_id, "raised")
            /\ UNCHANGED <<jobs, job_order, signals>>
       ELSE /\ jobs' = [jobs EXCEPT ![j.job_id] = postgres_row(j)]
            /\ signals' = SignalSent
            /\ last' = Returned("enqueue", j.job_id, "stored")
            /\ UNCHANGED job_order
    /\ pc' = [pc EXCEPT ![p] = "idle"]
    /\ job' = [job EXCEPT ![p] = NoJob]
    /\ UNCHANGED <<config, inprocess, limiter, admission, now, tenants, hidden, inflight, tenant, req, msg, hist>>

\* ------------------------------------------------- PATCH tenant plan
update_tenant_plan_read(p, t, plan) ==
    /\ pc[p] = "idle"
    /\ get_tenant(t) # NoTenant
    /\ pc' = [pc EXCEPT ![p] = "patch_write"]
    /\ tenant' = [tenant EXCEPT ![p] = get_tenant(t)]
    /\ req' = [req EXCEPT ![p] = plan]
    /\ last' = NoCall
    /\ UNCHANGED <<config, inprocess, limiter, admission, now, jobs, job_order, tenants, bus, job, msg, hist>>

update_tenant_plan_write(p) ==
    /\ pc[p] = "patch_write"
    /\ tenants' = upsert_tenant(tenants, [LocalTenant(p) EXCEPT !.plan = req[p]])
    /\ pc' = [pc EXCEPT ![p] = "idle"]
    /\ tenant' = [tenant EXCEPT ![p] = NoTenant]
    /\ req' = [req EXCEPT ![p] = "none"]
    /\ last' = NoCall
    /\ UNCHANGED <<config, inprocess, limiter, admission, now, jobs, job_order, bus, job, msg, hist>>

\* ------------------------------------------------- the worker
Holds == {"get_tenant", "dl_missing", "activate", "mark_done", "handler"}

\* the wrapper's _receive_signal: one visible message, if there is one
Received == Wrapped /\ signals > 0

\* the job handed to the caller of claim_next, bound to the held bus message
Claimed(p, j, js, held) ==
    /\ jobs' = js
    /\ job' = [job EXCEPT ![p] = js[j]]
    /\ inflight' = IF held THEN inflight \cup {j} ELSE inflight
    /\ msg' = [msg EXCEPT ![p] = FALSE]
    /\ pc' = [pc EXCEPT ![p] = "get_tenant"]
    /\ hist' = Recount(js, j, 0)

\* the delegate's claim_next: the jobs it may return
delegate_claim_next ==
    IF backend = "memory" THEN memory_claim_next ELSE postgres_claim_next

\* a wrapper that asks the delegate only when it received a message
wrapper_claim_next_signalled(got) ==
    IF Wrapped /\ ~got THEN {} ELSE delegate_claim_next

\* the wrapper's claim_next: return self._delegate.claim_next(), whatever
\* _receive_signal returned
wrapper_claim_next(got) == delegate_claim_next

\* process_next_job: job = queue.claim_next(). Postgres selects and updates the
\* row under FOR UPDATE SKIP LOCKED in one transaction; the in-memory queue
\* finds the job here and writes its state in a later step.
claim_next(p) ==
    /\ pc[p] = "idle"
    /\ LET got == Received
           held == got /\ transport = "storage_queue"
           cands == wrapper_claim_next(got)
       IN /\ signals' = IF got THEN signals - 1 ELSE signals
          /\ IF cands = {}
             THEN /\ hidden' = IF held THEN hidden + 1 ELSE hidden
                  /\ last' = Returned("process_next_job", 0, "false")
                  /\ UNCHANGED <<jobs, job, inflight, msg, pc, hist>>
             ELSE /\ last' = NoCall
                  /\ \E j \in cands :
                       IF backend = "memory"
                       THEN /\ pc' = [pc EXCEPT ![p] = "claim_set"]
                            /\ job' = [job EXCEPT ![p] = jobs[j]]
                            /\ msg' = [msg EXCEPT ![p] = held]
                            /\ UNCHANGED <<jobs, inflight, hidden, hist>>
                       ELSE /\ Claimed(p, j, [jobs EXCEPT ![j].state = "running"], held)
                            /\ UNCHANGED hidden
    /\ UNCHANGED <<config, inprocess, limiter, admission, now, job_order, tenants, tenant, req>>

\* InMemoryProvisioningQueue.claim_next: job.state = "running"; return job.model_copy()
claim_next_set(p) ==
    /\ pc[p] = "claim_set"
    /\ Claimed(p, job[p].job_id, [jobs EXCEPT ![job[p].job_id].state = "running"], msg[p])
    /\ last' = NoCall
    /\ UNCHANGED <<config, inprocess, limiter, admission, now, job_order, tenants, signals, hidden, tenant, req>>

\* tenant = catalog.get_tenant(job.tenant_id), and the two tests on it
worker_get_tenant(p) ==
    /\ pc[p] = "get_tenant"
    /\ LET tn == get_tenant(job[p].tenant_id) IN
       IF tn = NoTenant
       THEN /\ pc' = [pc EXCEPT ![p] = "dl_missing"]
            /\ UNCHANGED tenant
       ELSE /\ tenant' = [tenant EXCEPT ![p] = tn]
            /\ pc' = [pc EXCEPT ![p] =
                        IF tn.status # "active" THEN "activate" ELSE "mark_done"]
    /\ last' = NoCall
    /\ UNCHANGED <<config, inprocess, limiter, admission, now, jobs, job_order, tenants, bus, job, req, msg, hist>>

\* catalog.get_tenant raises
worker_get_tenant_raises(p) ==
    /\ pc[p] = "get_tenant"
    /\ pc' = [pc EXCEPT ![p] = "handler"]
    /\ last' = NoCall
    /\ UNCHANGED <<config, inprocess, limiter, admission, now, jobs, job_order, tenants, bus, job, tenant, req, msg, hist>>

\* the wrapper's bus calls after the durable write of a mark_*: _ack_signal pops
\* the in-flight entry and deletes the message; a retry sends a new signal. A
\* call that raises leaves the received message undeleted.
BusAfterMark(id, ok, resend) ==
    /\ inflight' = inflight \ {id}
    /\ hidden' = IF ~ok /\ id \in inflight THEN hidden + 1 ELSE hidden
    /\ signals' = IF ok /\ resend /\ Wrapped THEN signals + 1 ELSE signals

Finish(p) ==
    /\ job' = [job EXCEPT ![p] = NoJob]
    /\ tenant' = [tenant EXCEPT ![p] = NoTenant]

\* queue.mark_dead_letter(job.job_id, "tenant not found"); return False.
\* Under a wrapper the bus call that follows the durable write may raise, and
\* the exception is caught by the handler of the same try block.
worker_tenant_missing(p, ok) ==
    /\ pc[p] = "dl_missing"
    /\ ok \/ Wrapped
    /\ LET js == mark_dead_letter(jobs, job[p].job_id, "tenant not found") IN
         /\ jobs' = js
         /\ hist' = Recount(js, 0, job[p].job_id)
    /\ BusAfterMark(job[p].job_id, ok, FALSE)
    /\ IF ok
       THEN /\ pc' = [pc EXCEPT ![p] = "idle"]
            /\ Finish(p)
            /\ last' = Returned("process_next_job", job[p].job_id, "false")
       ELSE /\ pc' = [pc EXCEPT ![p] = "handler"]
            /\ last' = NoCall
            /\ UNCHANGED <<job, tenant>>
    /\ UNCHANGED <<config, inprocess, limiter, admission, now, job_order, tenants, req, msg>>

\* tenant.status = "active"; catalog.upsert_tenant(tenant)
worker_activate(p) ==
    /\ pc[p] = "activate"
    /\ tenants' = upsert_tenant(tenants, [LocalTenant(p) EXCEPT !.status = "active"])
    /\ pc' = [pc EXCEPT ![p] = "mark_done"]
    /\ last' = NoCall
    /\ UNCHANGED <<config, inprocess, limiter, admission, now, jobs, job_order, bus, job, tenant, req, msg, hist>>

\* PostgresTenantCatalog.upsert_tenant raises before its commit
worker_activate_raises(p) ==
    /\ pc[p] = "activate"
    /\ backend = "postgres"
    /\ pc' = [pc EXCEPT ![p] = "handler"]
    /\ last' = NoCall
    /\ UNCHANGED <<config, inprocess, limiter, admission, now, jobs, job_order, tenants, bus, job, tenant, req, msg, hist>>

\* queue.mark_done(job.job_id); return True. The storage-queue wrapper's
\* delete_message may raise after the delegate has written the state.
worker_mark_done(p, ok) ==
    /\ pc[p] = "mark_done"
    /\ ok \/ (transport = "storage_queue" /\ job[p].job_id \in inflight)
    /\ LET js == mark_done(jobs, job[p].job_id) IN
         /\ jobs' = js
         /\ hist' = Recount(js, 0, job[p].job_id)
    /\ BusAfterMark(job[p].job_id, ok, FALSE)
    /\ IF ok
       THEN /\ pc' = [pc EXCEPT ![p] = "idle"]
            /\ Finish(p)
            /\ last' = Returned("process_next_job", job[p].job_id, "true")
       ELSE /\ pc' = [pc EXCEPT ![p] = "handler"]
            /\ last' = NoCall
            /\ UNCHANGED <<job, tenant>>
    /\ UNCHANGED <<config, inprocess, limiter, admission, now, job_order, tenants, req, msg>>

\* max_attempts = max(job.max_attempts, default_max_attempts, 1)
attempt_budget(j) == Max3(j.max_attempts, default_max_attempts, 1)

\* delay_seconds = max(retry_base_seconds, 0) * (2 ** max(job.retries, 0))
delay_seconds(j) == Max2(retry_base_seconds, 0) * Pow2(Max2(j.retries, 0))

\* job.retries + 1 >= max_attempts
Exhausted(j) == j.retries + 1 >= attempt_budget(j)

\* except Exception: mark_dead_letter or mark_retry; return False. A bus call
\* that raises here leaves process_next_job as an exception.
worker_handler(p, ok) ==
    /\ pc[p] = "handler"
    /\ ok \/ Wrapped
    /\ LET j == job[p]
           js == IF Exhausted(j)
                 THEN mark_dead_letter(jobs, j.job_id, "err")
                 ELSE mark_retry(jobs, j.job_id, "err", delay_seconds(j))
       IN /\ jobs' = js
          /\ hist' = Recount(js, 0, j.job_id)
          /\ BusAfterMark(j.job_id, ok, ~Exhausted(j))
    /\ pc' = [pc EXCEPT ![p] = "idle"]
    /\ Finish(p)
    /\ last' = Returned("process_next_job", job[p].job_id, IF ok THEN "false" ELSE "raised")
    /\ UNCHANGED <<config, inprocess, limiter, admission, now, job_order, tenants, req, msg>>

\* the visibility timeout of a received, undeleted storage-queue message ends
bus_redeliver ==
    /\ hidden > 0
    /\ hidden' = hidden - 1
    /\ signals' = signals + 1
    /\ last' = NoCall
    /\ UNCHANGED <<config, inprocess, limiter, admission, now, jobs, job_order, tenants, inflight, locals, hist>>

\* an invocation ends without returning: the worker process is stopped
crash(p) ==
    /\ pc[p] \in Holds
    /\ pc' = [pc EXCEPT ![p] = "idle"]
    /\ Finish(p)
    /\ last' = NoCall
    /\ UNCHANGED <<config, inprocess, limiter, admission, now, jobs, job_order, tenants, bus, req, msg, hist>>

\* ------------------------------------------------- the rate limiters
queue_state == <<config, jobs, job_order, tenants, bus, job, tenant, req, msg, hist>>

\* self.requests_per_minute = max(requests_per_minute, 1)
requests_per_minute == Max2(default_rate_limit_rpm, 1)

\* int(time.time() // 60)
now_window == now \div WindowSeconds

\* ttl_seconds = max(1, 60 - int(now % 60))
ttl_seconds == Max2(1, WindowSeconds - (now % WindowSeconds))

\* (mutant of fixed_counter: the stored count is kept across windows)
fixed_counter_kept(k, w) ==
    IF counters[k] = NoCounter THEN [window |-> w, count |-> 0]
    ELSE [window |-> w, count |-> counters[k].count]

\* window, count = self._counters.get(key, (now_window, 0)), and the reset of a
\* count stored for another window
fixed_counter(k, w) ==
    LET c == IF counters[k] = NoCounter THEN [window |-> w, count |-> 0]
             ELSE counters[k]
    IN IF c.window # w THEN [window |-> w, count |-> 0] ELSE c

\* FixedWindowRateLimiter.allow under its lock: the result and the stored pair
fixed_allows(k, w) == ~(fixed_counter(k, w).count >= requests_per_minute)

fixed_stored(k, w) ==
    [counters EXCEPT ![k] =
        [window |-> w,
         count |-> IF fixed_allows(k, w) THEN fixed_counter(k, w).count + 1
                   ELSE fixed_counter(k, w).count]]

\* a Redis key that has not expired
redis_live(w, k) ==
    redis[w][k].expires_at = NoTTL \/ redis[w][k].expires_at > now

\* INCR: the value after the increment; an expired key starts again from 0
redis_incr(w, k) == (IF redis_live(w, k) THEN redis[w][k].count ELSE 0) + 1

redis_after_incr(w, k) ==
    [redis EXCEPT ![w][k] =
        [count |-> redis_incr(w, k),
         expires_at |-> IF redis_live(w, k) THEN redis[w][k].expires_at ELSE NoTTL]]

\* EXPIRE key ttl
redis_after_expire(rd, w, k, ttl) ==
    [rd EXCEPT ![w][k].expires_at = now + ttl]

\* (mutant of redis_allows: the limit itself is refused)
redis_allows_below(count) == count < requests_per_minute

\* return count <= self.requests_per_minute
redis_allows(count) == count <= requests_per_minute

\* (mutant of on_store_error: the error is always swallowed)
on_store_error_open == "true"

\* except Exception: return True if self.fail_open, else raise
on_store_error == IF fail_open THEN "true" ELSE "raised"

Bool(b) == IF b THEN "true" ELSE "false"

\* the history of allow(key) calls per key and window of the call
RateCount(k, w, result) ==
    [rate_hist EXCEPT
       ![k][w].granted = @ + (IF result = "true" THEN 1 ELSE 0),
       ![k][w].inside = @ + (IF result = "true" /\ w = now_window THEN 1 ELSE 0),
       ![k][w].denied = @ + (IF result = "false" THEN 1 ELSE 0)]

\* allow(key): the clock is read, before the lock is taken or Redis is called
allow_begin(p, k) ==
    /\ pc[p] = "idle"
    /\ rate_hist[k][now_window].calls < MaxCalls
    /\ call' = [call EXCEPT ![p] =
                  [key |-> k, now_window |-> now_window,
                   ttl_seconds |-> ttl_seconds, count |-> 0]]
    /\ rate_hist' = [rate_hist EXCEPT ![k][now_window].calls = @ + 1]
    /\ pc' = [pc EXCEPT ![p] = "allow_body"]
    /\ last' = NoCall
    /\ UNCHANGED <<queue_state, inprocess, admission, now, rate_limit_backend, default_rate_limit_rpm,
                   fail_open, counters, redis>>

AllowReturns(p, result) ==
    /\ pc' = [pc EXCEPT ![p] = "idle"]
    /\ call' = [call EXCEPT ![p] = NoRateCall]
    /\ rate_hist' = RateCount(call[p].key, call[p].now_window, result)
    /\ last' = Returned("allow", call[p].key, result)

\* FixedWindowRateLimiter.allow: the body under self._lock
fixed_allow_block(p) ==
    /\ counters' = fixed_stored(call[p].key, call[p].now_window)
    /\ AllowReturns(p, Bool(fixed_allows(call[p].key, call[p].now_window)))

\* FixedWindowRateLimiter.allow when the lock is free: taken, used and released
fixed_allow(p) ==
    /\ pc[p] = "allow_body"
    /\ rate_limit_backend = "memory"
    /\ locks.limiter = Unlocked
    /\ fixed_allow_block(p)
    /\ UNCHANGED <<queue_state, inprocess, admission, now, rate_limit_backend, default_rate_limit_rpm,
                   fail_open, redis>>

\* RedisFixedWindowRateLimiter.allow: count = int(self._redis.incr(redis_key))
redis_allow_incr(p) ==
    /\ pc[p] = "allow_body"
    /\ rate_limit_backend = "redis"
    /\ LET w == call[p].now_window
           k == call[p].key
       IN /\ redis' = redis_after_incr(w, k)
          /\ IF redis_incr(w, k) = 1
             THEN /\ pc' = [pc EXCEPT ![p] = "allow_expire"]
                  /\ call' = [call EXCEPT ![p].count = 1]
                  /\ last' = NoCall
                  /\ UNCHANGED rate_hist
             ELSE AllowReturns(p, Bool(redis_allows(redis_incr(w, k))))
    /\ UNCHANGED <<queue_state, inprocess, admission, now, rate_limit_backend, default_rate_limit_rpm,
                   fail_open, counters>>

\* self._redis.expire(redis_key, ttl_seconds); return count <= requests_per_minute
redis_allow_expire(p) ==
    /\ pc[p] = "allow_expire"
    /\ redis' = redis_after_expire(redis, call[p].now_window, call[p].key,
                                   call[p].ttl_seconds)
    /\ AllowReturns(p, Bool(redis_allows(call[p].count)))
    /\ UNCHANGED <<queue_state, inprocess, admission, now, rate_limit_backend, default_rate_limit_rpm,
                   fail_open, counters>>

\* a call to the Redis client raises: incr before it counted, or expire
redis_allow_raises(p) ==
    /\ pc[p] \in {"allow_body", "allow_expire"}
    /\ rate_limit_backend = "redis"
    /\ pc' = [pc EXCEPT ![p] = "idle"]
    /\ call' = [call EXCEPT ![p] = NoRateCall]
    /\ last' = Returned("allow", call[p].key, on_store_error)
    /\ UNCHANGED <<queue_state, inprocess, admission, now, rate_limit_backend, default_rate_limit_rpm,
                   fail_open, counters, redis, rate_hist>>

\* wall-clock time passes
RateTick ==
    /\ now + RateStep <= MaxRateTime
    /\ now' = now + RateStep
    /\ last' = NoCall
    /\ UNCHANGED <<queue_state, inprocess, admission, limiter, pc>>

\* one process drives both limiters with the same call at the same clock value
allow_pair(k) ==
    /\ rate_hist[k][now_window].calls < MaxCalls
    /\ counters' = fixed_stored(k, now_window)
    /\ redis' = IF redis_incr(now_window, k) = 1
                THEN redis_after_expire(redis_after_incr(now_window, k),
                                        now_window, k, ttl_seconds)
                ELSE redis_after_incr(now_window, k)
    /\ rate_hist' = [rate_hist EXCEPT ![k][now_window].calls = @ + 1]
    /\ last' = [op |-> "allow_pair", key |-> k,
                fixed |-> fixed_allows(k, now_window),
                redis |-> redis_allows(redis_incr(now_window, k))]
    /\ UNCHANGED <<queue_state, inprocess, admission, now, pc, rate_limit_backend,
                   default_rate_limit_rpm, fail_open, call>>

\* ------------------------------------------------- specifications
\* No job is handed out more than MaxClaims times (bounds the exploration).
ClaimRoom ==
    \A j \in (IF backend = "memory" THEN memory_claim_next ELSE postgres_claim_next) :
        hist[j].claims
          + Cardinality({q \in Procs : pc[q] = "claim_set" /\ job[q].job_id = j})
          < MaxClaims

EnqueueSteps(p) ==
    \/ EnqueueScan(p)
    \/ EnqueueInsert(p)

ProcessSteps(p) ==
    \/ worker_get_tenant(p)
    \/ worker_get_tenant_raises(p)
    \/ worker_activate(p)
    \/ worker_activate_raises(p)
    \/ \E ok \in BOOLEAN : worker_mark_done(p, ok)
    \/ \E ok \in BOOLEAN : worker_handler(p, ok)

\* The engine on the durable store alone: both stores, no transport wrapper.
Next ==
    \/ Tick
    \/ \E p \in Procs :
        \/ \E j \in Submitted : EnqueueCall(p, j)
        \/ \E t \in TenantIds, j \in JobIds : create_tenant(p, t, "starter", j)
        \/ EnqueueSteps(p)
        \/ ClaimRoom /\ claim_next(p)
        \/ claim_next_set(p)
        \/ ProcessSteps(p)
        \/ \E ok \in BOOLEAN : worker_tenant_missing(p, ok)

DatabaseInit == Init /\ transport = "database" /\ LimiterDefault

Spec == DatabaseInit /\ [][Next]_vars

\* The engine behind a transport wrapper over the Postgres store.
WrapNext ==
    \/ Tick
    \/ bus_redeliver
    \/ \E p \in Procs :
        \/ \E j \in KeyedSubmitted : EnqueueCall(p, j)
        \/ \E t \in TenantIds, j \in JobIds : create_tenant(p, t, "starter", j)
        \/ EnqueueSteps(p)
        \/ ClaimRoom /\ claim_next(p)
        \/ ProcessSteps(p)
        \/ \E ok \in BOOLEAN : worker_tenant_missing(p, ok)

WrapInit == Init /\ backend = "postgres" /\ Wrapped /\ LimiterDefault

WrapSpec == WrapInit /\ [][WrapNext]_vars

\* Tenants created and re-planned through the API while workers run.
TenantNext ==
    \/ Tick
    \/ \E p \in Procs :
        \/ \E t \in TenantIds, plan \in PlanIds, j \in JobIds : create_tenant(p, t, plan, j)
        \/ EnqueueSteps(p)
        \/ \E t \in TenantIds, plan \in PlanIds : update_tenant_plan_read(p, t, plan)
        \/ update_tenant_plan_write(p)
        \/ ClaimRoom /\ claim_next(p)
        \/ claim_next_set(p)
        \/ ProcessSteps(p)

TenantSpec == DatabaseInit /\ [][TenantNext]_vars

\* Workers that may stop between the claim and the mark_*, on the Postgres
\* store, with every worker and the clock scheduled fairly.
WorkerSteps(p) == claim_next(p) \/ ProcessSteps(p) \/ worker_tenant_missing(p, TRUE)

CrashNext ==
    \/ Tick
    \/ \E p \in Procs :
        \/ \E j \in Submitted : EnqueueCall(p, j)
        \/ \E t \in TenantIds, j \in JobIds : create_tenant(p, t, "starter", j)
        \/ EnqueueSteps(p)
        \/ WorkerSteps(p)
        \/ crash(p)

CrashInit == Init /\ backend = "postgres" /\ transport = "database" /\ LimiterDefault

CrashSpec ==
    /\ CrashInit
    /\ [][CrashNext]_vars
    /\ WF_vars(Tick)
    /\ \A p \in Procs : WF_vars(WorkerSteps(p)) /\ WF_vars(EnqueueSteps(p))

\* Callers that hand over job objects with any field values, while time passes
\* between the construction of a job object and its insertion.
SubmittedStates == {"queued", "done"}

AnySubmitted ==
    {[job_id |-> j, tenant_id |-> t, idempotency_key |-> None, state |-> st,
      retries |-> r, max_attempts |-> default_max_attempts, error |-> "none",
      available_at |-> a, created_at |-> now] :
        j \in {i \in JobIds : ~IdInUse(i)}, t \in TenantIds,
        st \in SubmittedStates, r \in 0..1, a \in now..MaxElapsed}

\* time passes
Elapse ==
    /\ now < MaxElapsed
    /\ now' = now + 1
    /\ last' = NoCall
    /\ UNCHANGED <<config, inprocess, limiter, admission, jobs, job_order, tenants, bus, locals, hist>>

SubmitNext ==
    \/ Elapse
    \/ \E p \in Procs :
        \/ \E j \in AnySubmitted : EnqueueCall(p, j)
        \/ EnqueueSteps(p)
        \/ ClaimRoom /\ claim_next(p)
        \/ claim_next_set(p)
        \/ worker_get_tenant(p)
        \/ worker_tenant_missing(p, TRUE)

SubmitSpec == DatabaseInit /\ [][SubmitNext]_vars

\* Concurrent callers of one limiter whose store is healthy.
RateInit == Init /\ QueueDefault

RateNext ==
    \/ RateTick
    \/ \E p \in Procs :
        \/ \E k \in RateKeys : allow_begin(p, k)
        \/ fixed_allow(p)
        \/ redis_allow_incr(p)
        \/ redis_allow_expire(p)

RateSpec == RateInit /\ [][RateNext]_vars

\* Concurrent callers of the Redis limiter whose store may fail.
RateFailInit == Init /\ QueueDefault /\ rate_limit_backend = "redis"

RateFailNext ==
    \/ RateTick
    \/ \E p \in Procs :
        \/ \E k \in RateKeys : allow_begin(p, k)
        \/ redis_allow_incr(p)
        \/ redis_allow_expire(p)
        \/ redis_allow_raises(p)

RateFailSpec == RateFailInit /\ [][RateFailNext]_vars

\* One process drives both limiters in step.
PairInit == Init /\ QueueDefault /\ rate_limit_backend = "memory" /\ fail_open

PairNext ==
    \/ RateTick
    \/ \E k \in RateKeys : allow_pair(k)

PairSpec == PairInit /\ [][PairNext]_vars

\* ------------------------------------------------- monthly quota
\* allow_request with the message test alone
allow_request_messages_only(policy, counter, estimated_tokens) ==
    ~(counter.messages_used + 1 > policy.included_messages)

\* allow_request: both early returns, then True
allow_request(policy, counter, estimated_tokens) ==
    IF counter.messages_used + 1 > policy.included_messages
    THEN FALSE
    ELSE IF counter.tokens_used + Max2(estimated_tokens, 0) > policy.hard_token_cap
    THEN FALSE
    ELSE TRUE

QuotaPolicies == [included_messages : 0..MaxMessages, hard_token_cap : 0..MaxTokens]
QuotaCounters == [messages_used : 0..MaxMessages, tokens_used : 0..MaxTokens]
Estimates == (0 - 1)..MaxTokens

\* a caller builds a policy and a counter and asks allow_request; the objects
\* it passed are read back after the call
allow_request_call(policy, counter, estimated_tokens) ==
    /\ quota = NoQuota
    /\ quota' = [policy |-> policy, counter |-> counter,
                 estimated_tokens |-> estimated_tokens,
                 result |-> Bool(allow_request(policy, counter, estimated_tokens)),
                 policy_after |-> policy, counter_after |-> counter]
    /\ UNCHANGED <<queue_state, inprocess, limiter, now, pc, last, plans, settings, events, auth, run>>

QuotaInit == Init /\ QueueDefault /\ LimiterDefault

QuotaNext ==
    \E policy \in QuotaPolicies, counter \in QuotaCounters, e \in Estimates :
        allow_request_call(policy, counter, e)

QuotaSpec == QuotaInit /\ [][QuotaNext]_vars

\* ------------------------------------------------- tenant authentication
\* settings.app_env.strip().lower()
env_normal(e) ==
    CASE e = "PROD" -> "prod"
      [] e = " Production " -> "production"
      [] OTHER -> e

is_jwks_complete(st) == st.jwks = "full"

\* _is_jwks_enabled: any of jwt_jwks_url, jwt_issuer, jwt_audience is set
is_jwks_enabled(st) == st.jwks # "off"

auth_configured(st) ==
    \/ \E t \in AuthTenants : st.tenant_api_keys[t] # 0
    \/ st.jwt_shared_secret
    \/ is_jwks_enabled(st)

\* _is_valid_api_key with the comparison of the two keys left out
is_valid_api_key_present(st, tenant_id, api_key) ==
    LET expected == IF tenant_id \in AuthTenants
                    THEN st.tenant_api_keys[tenant_id] ELSE 0
    IN  expected # 0 /\ api_key # 0

\* _is_valid_api_key: expected and api_key and api_key == expected
is_valid_api_key(st, tenant_id, api_key) ==
    LET expected == IF tenant_id \in AuthTenants
                    THEN st.tenant_api_keys[tenant_id] ELSE 0
    IN  expected # 0 /\ api_key # 0 /\ api_key = expected

\* _decode_bearer_jwt: the payload, or NoToken where it raises
decode_bearer_jwt(st, authorization) ==
    IF authorization = NoToken
    THEN NoToken
    ELSE IF is_jwks_enabled(st)
    THEN IF st.jwks = "full" /\ authorization.signer = "jwks"
         THEN authorization ELSE NoToken
    ELSE IF st.jwt_shared_secret
    THEN IF authorization.signer = "secret" THEN authorization ELSE NoToken
    ELSE NoToken

\* _get_valid_jwt_subject: the subject, or 0 for None
get_valid_jwt_subject(st, tenant_id, authorization) ==
    LET payload == decode_bearer_jwt(st, authorization)
    IN  IF payload = NoToken THEN 0
        ELSE IF payload.tenant_id # tenant_id THEN 0
        ELSE payload.subject

Rejected(status) == [status |-> status, tenant_id |-> 0, customer_user_id |-> 0]
TenantContext(t, c) == [status |-> 200, tenant_id |-> t, customer_user_id |-> c]

\* authenticate with the production test on the raw app_env
authenticate_raw_env(st, path_tenant_id, x_tenant_id, x_customer_user_id, x_api_key, authorization) ==
    IF x_tenant_id = 0 \/ x_customer_user_id = 0
    THEN Rejected(400)
    ELSE IF path_tenant_id # x_tenant_id
    THEN Rejected(403)
    ELSE IF auth_configured(st)
    THEN IF is_valid_api_key(st, x_tenant_id, x_api_key)
         THEN TenantContext(x_tenant_id, x_customer_user_id)
         ELSE LET jwt_subject == get_valid_jwt_subject(st, x_tenant_id, authorization)
              IN  IF jwt_subject # 0
                  THEN IF jwt_subject # x_customer_user_id
                       THEN Rejected(403)
                       ELSE TenantContext(x_tenant_id, jwt_subject)
                  ELSE Rejected(401)
    ELSE IF st.app_env \in {"prod", "production"}
    THEN Rejected(500)
    ELSE TenantContext(x_tenant_id, x_customer_user_id)

\* TenantAuthService.authenticate
authenticate(st, path_tenant_id, x_tenant_id, x_customer_user_id, x_api_key, authorization) ==
    IF x_tenant_id = 0 \/ x_customer_user_id = 0
    THEN Rejected(400)
    ELSE IF path_tenant_id # x_tenant_id
    THEN Rejected(403)
    ELSE IF auth_configured(st)
    THEN IF is_valid_api_key(st, x_tenant_id, x_api_key)
         THEN TenantContext(x_tenant_id, x_customer_user_id)
         ELSE LET jwt_subject == get_valid_jwt_subject(st, x_tenant_id, authorization)
              IN  IF jwt_subject # 0
                  THEN IF jwt_subject # x_customer_user_id
                       THEN Rejected(403)
                       ELSE TenantContext(x_tenant_id, jwt_subject)
                  ELSE Rejected(401)
    ELSE IF env_normal(st.app_env) \in {"prod", "production"}
    THEN Rejected(500)
    ELSE TenantContext(x_tenant_id, x_customer_user_id)

\* a caller of TenantAuthService(settings).authenticate
authenticate_call(path_tenant_id, x_tenant_id, x_customer_user_id, x_api_key, authorization) ==
    /\ auth = NoAuth
    /\ LET out == authenticate(settings, path_tenant_id, x_tenant_id,
                               x_customer_user_id, x_api_key, authorization)
       IN  auth' = [path_tenant_id |-> path_tenant_id, x_tenant_id |-> x_tenant_id,
                    x_customer_user_id |-> x_customer_user_id,
                    x_api_key |-> x_api_key, authorization |-> authorization,
                    status |-> out.status, tenant_id |-> out.tenant_id,
                    customer_user_id |-> out.customer_user_id]
    /\ UNCHANGED <<queue_state, inprocess, limiter, now, pc, last, plans, settings, events, quota, run>>

SettingsSpace ==
    [tenant_api_keys : [AuthTenants -> {0, 1}], jwt_shared_secret : BOOLEAN,
     jwks : JwksSettings, app_env : Environments]

AuthInit ==
    /\ Construction /\ QueueDefault /\ LimiterDefault
    /\ plans = default_plans
    /\ settings \in SettingsSpace
    /\ events = <<>>
    /\ quota = NoQuota
    /\ auth = NoAuth
    /\ run = NoRun

AuthNext ==
    \E path \in AuthTenants, xt \in {0} \cup AuthTenants, xc \in Credentials,
       key \in Credentials, authorization \in {NoToken} \cup Tokens :
        authenticate_call(path, xt, xc, key, authorization)

AuthSpec == AuthInit /\ [][AuthNext]_vars

\* ------------------------------------------------- usage meter
\* A datetime is a count of instants since the first instant of year 0, in a
\* calendar of twelve months of MonthLen instants each; a month string
\* "YYYY-MM" is the pair <<year, month>>.
UsageTenantIds == 1..NumUsageTenants
RequestIds == 1..MaxRequests
FirstInstant == 11 * MonthLen
Datetimes == FirstInstant..(FirstInstant + 2 * MonthLen - 1)
Months == {<<0, 11>>, <<0, 12>>, <<1, 1>>}
UsageEvents ==
    [request_id : RequestIds, tenant_id : UsageTenantIds,
     tokens_in : 1..2, tokens_out : {1}, created_at : Datetimes]
NoRecord == [tenant_id |-> 0]

datetime_year(d) == d \div (12 * MonthLen)
datetime_month(d) == ((d \div MonthLen) % 12) + 1
datetime_of(year, month) == (year * 12 + (month - 1)) * MonthLen

\* created_at.strftime("%Y-%m")
strftime_month(d) == <<datetime_year(d), datetime_month(d)>>

\* datetime.strptime(month, "%Y-%m").replace(tzinfo=timezone.utc)
strptime_month(month) == datetime_of(month[1], month[2])

\* _month_bounds
month_bounds(month) ==
    LET start == strptime_month(month)
    IN  IF datetime_month(start) = 12
        THEN <<start, datetime_of(datetime_year(start) + 1, 1)>>
        ELSE <<start, datetime_of(datetime_year(start), datetime_month(start) + 1)>>

\* InMemoryUsageMeter.record
memory_record(evs, event) == Append(evs, event)

\* PostgresUsageMeter.record: session.merge on the primary key request_id
postgres_record(evs, event) ==
    IF \E i \in 1..Len(evs) : evs[i].request_id = event.request_id
    THEN [i \in 1..Len(evs) |->
            IF evs[i].request_id = event.request_id THEN event ELSE evs[i]]
    ELSE Append(evs, event)

usage_record(evs, event) ==
    IF backend = "memory" THEN memory_record(evs, event)
    ELSE postgres_record(evs, event)

\* the where clause with the end of the month included
postgres_in_month_closed(event, month) ==
    /\ event.created_at >= month_bounds(month)[1]
    /\ event.created_at <= month_bounds(month)[2]

\* the where clause of PostgresUsageMeter on created_at
postgres_in_month(event, month) ==
    /\ event.created_at >= month_bounds(month)[1]
    /\ event.created_at < month_bounds(month)[2]

\* the test of InMemoryUsageMeter on created_at
memory_in_month(event, month) == strftime_month(event.created_at) = month

in_month(event, month) ==
    IF backend = "memory" THEN memory_in_month(event, month)
    ELSE postgres_in_month(event, month)

RECURSIVE sum_tokens(_)
sum_tokens(evs) ==
    IF evs = <<>> THEN 0
    ELSE Head(evs).tokens_in + Head(evs).tokens_out + sum_tokens(Tail(evs))

\* summarize_tenant_month of either meter
summarize_tenant_month(evs, tenant_id, month) ==
    LET selected == SelectSeq(evs, LAMBDA event :
                        event.tenant_id = tenant_id /\ in_month(event, month))
    IN  [tenant_id |-> tenant_id, month |-> month,
         messages_used |-> Len(selected), tokens_used |-> sum_tokens(selected)]

\* the loop of InMemoryUsageMeter.summarize_all_tenants_month over the first
\* n events: the dict grouped, with its keys in insertion order
RECURSIVE grouped(_, _, _)
grouped(evs, n, month) ==
    IF n = 0
    THEN [keys |-> <<>>, value |-> [t \in UsageTenantIds |-> NoRecord]]
    ELSE LET g == grouped(evs, n - 1, month)
             event == evs[n]
             existing == g.value[event.tenant_id]
         IN  IF strftime_month(event.created_at) # month
             THEN g
             ELSE IF existing = NoRecord
             THEN [keys |-> Append(g.keys, event.tenant_id),
                   value |-> [g.value EXCEPT ![event.tenant_id] =
                        [tenant_id |-> event.tenant_id, month |-> month,
                         messages_used |-> 1,
                         tokens_used |-> event.tokens_in + event.tokens_out]]]
             ELSE [keys |-> g.keys,
                   value |-> [g.value EXCEPT ![event.tenant_id] =
                        [tenant_id |-> existing.tenant_id, month |-> month,
                         messages_used |-> existing.messages_used + 1,
                         tokens_used |-> existing.tokens_used
                                           + event.tokens_in + event.tokens_out]]]

RECURSIVE insert_sorted(_, _)
insert_sorted(ids, t) ==
    IF ids = <<>> THEN <<t>>
    ELSE IF t <= Head(ids) THEN <<t>> \o ids
    ELSE <<Head(ids)>> \o insert_sorted(Tail(ids), t)

\* sorted(..., key=tenant_id) and ORDER BY tenant_id
RECURSIVE sorted_ids(_)
sorted_ids(ids) ==
    IF ids = <<>> THEN <<>>
    ELSE insert_sorted(sorted_ids(Tail(ids)), Head(ids))

\* the values of the dict in the order it holds them
memory_summarize_all_unsorted(evs, month) ==
    LET g == grouped(evs, Len(evs), month)
    IN  [i \in 1..Len(g.keys) |-> g.value[g.keys[i]]]

\* InMemoryUsageMeter.summarize_all_tenants_month
memory_summarize_all(evs, month) ==
    LET g == grouped(evs, Len(evs), month)
        order == sorted_ids(g.keys)
    IN  [i \in 1..Len(order) |-> g.value[order[i]]]

RECURSIVE set_to_seq(_)
set_to_seq(S) ==
    IF S = {} THEN <<>>
    ELSE LET t == CHOOSE x \in S : TRUE IN <<t>> \o set_to_seq(S \ {t})

\* GROUP BY tenant_id over the rows of the month, ORDER BY tenant_id
postgres_summarize_all(evs, month) ==
    LET groups == {evs[i].tenant_id :
                     i \in {k \in 1..Len(evs) : postgres_in_month(evs[k], month)}}
        order == sorted_ids(set_to_seq(groups))
    IN  [i \in 1..Len(order) |->
            LET rows == SelectSeq(evs, LAMBDA event :
                           event.tenant_id = order[i] /\ postgres_in_month(event, month))
            IN  [tenant_id |-> order[i], month |-> month,
                 messages_used |-> Len(rows), tokens_used |-> sum_tokens(rows)]]

summarize_all_tenants_month(evs, month) ==
    IF backend = "memory" THEN memory_summarize_all(evs, month)
    ELSE postgres_summarize_all(evs, month)

\* a caller of usage.record
record(event) ==
    /\ Len(usage_record(events, event)) <= MaxEvents
    /\ events' = usage_record(events, event)
    /\ last' = Returned("record", event.request_id, event)
    /\ UNCHANGED <<queue_state, inprocess, limiter, now, pc, plans, settings, quota, auth, run>>

UsageInit == Init /\ transport = "database" /\ default_max_attempts = 1
                  /\ retry_base_seconds = 0 /\ LimiterDefault

UsageNext == \E event \in UsageEvents : record(event)

UsageSpec == UsageInit /\ [][UsageNext]_vars

\* ------------------------------------------------- tenant creation
PlanOf(n, active) ==
    [plan_id |-> n, active |-> active,
     monthly_messages |-> MaxMessages, monthly_token_cap |-> MaxTokens]

\* the catalogs an operator can leave behind through POST /v1/admin/plans: the
\* seeded plans active or not, another plan absent, active or not
PlanCatalogs ==
    {c \in [PlanNames -> {NoPlan} \cup {PlanOf(n, a) : n \in PlanNames, a \in BOOLEAN}] :
        /\ \A n \in PlanNames : c[n] # NoPlan => c[n].plan_id = n
        /\ \A n \in PlanIds : c[n] # NoPlan}

CreateInit ==
    /\ Construction /\ transport = "database" /\ LimiterDefault
    /\ plans \in PlanCatalogs
    /\ settings = default_settings
    /\ events = <<>>
    /\ quota = NoQuota
    /\ auth = NoAuth
    /\ run = NoRun

CreateNext ==
    \/ Tick
    \/ \E p \in Procs :
        \/ \E t \in TenantIds, plan \in PlanNames, j \in JobIds : create_tenant(p, t, plan, j)
        \/ EnqueueSteps(p)
        \/ ClaimRoom /\ claim_next(p)
        \/ claim_next_set(p)
        \/ ProcessSteps(p)

CreateSpec == CreateInit /\ [][CreateNext]_vars

\* ------------------------------------------------- run admission
\* the keyword arguments execute_run passes to ctx.auth.authenticate
authenticate_keywords ==
    {"path_tenant_id", "x_tenant_id", "x_customer_id", "x_api_key", "authorization"}

\* the parameters of TenantAuthService.authenticate
authenticate_parameters ==
    {"path_tenant_id", "x_tenant_id", "x_customer_user_id", "x_api_key", "authorization"}

\* a call by keyword binds when every keyword is a parameter and every
\* parameter without a default is given; otherwise Python raises TypeError
call_binds == authenticate_keywords = authenticate_parameters

RunRequests ==
    [tenant_id : AuthTenants, x_tenant_id : {0} \cup AuthTenants,
     x_customer_id : 0..1, x_api_key : 0..1,
     authorization : {NoToken}, message_len : {4}]

\* rate_key = f"{tenant_ctx.tenant_id}:{request.agent_id}", for one agent
run_rate_key(tenant_id) == tenant_id

\* ctx.limiter.allow(rate_key), taken as one step
limiter_allows(k) ==
    IF rate_limit_backend = "memory"
    THEN fixed_allows(k, now_window)
    ELSE redis_allows(redis_incr(now_window, k))

limiter_redis_after(k) ==
    IF redis_incr(now_window, k) = 1
    THEN redis_after_expire(redis_after_incr(now_window, k), now_window, k, ttl_seconds)
    ELSE redis_after_incr(now_window, k)

\* datetime.now(timezone.utc), the behaviour starting at FirstInstant
utc_now == FirstInstant + now

\* max(len(text) // 4, 1)
token_estimate(len) == Max2(len \div 4, 1)

\* execute_run after authenticate returned: the status and the last stage
admit(request) ==
    LET t == request.tenant_id
        tn == IF t \in TenantIds THEN get_tenant(t) ELSE NoTenant
    IN  IF tn = NoTenant
        THEN [status |-> 404, stage |-> "tenant"]
        ELSE IF tn.status # "active"
        THEN [status |-> 409, stage |-> "tenant"]
        ELSE IF plans[tn.plan] = NoPlan \/ ~plans[tn.plan].active
        THEN [status |-> 409, stage |-> "plan"]
        ELSE IF ~limiter_allows(run_rate_key(t))
        THEN [status |-> 429, stage |-> "rate"]
        ELSE LET usage_summary == summarize_tenant_month(events, t, strftime_month(utc_now))
                 estimated_tokens == token_estimate(request.message_len) * 2
                 policy == [included_messages |-> plans[tn.plan].monthly_messages,
                            hard_token_cap |-> plans[tn.plan].monthly_token_cap]
                 counter == [messages_used |-> usage_summary.messages_used,
                             tokens_used |-> usage_summary.tokens_used]
             IN  IF ~allow_request(policy, counter, estimated_tokens)
                 THEN [status |-> 429, stage |-> "quota"]
                 ELSE [status |-> 200, stage |-> "record"]

\* POST /v1/tenants/{tenant_id}/runs: the call of authenticate, the gates,
\* the gateway and the usage record; an exception that is not an
\* HTTPException is re-raised and answered 500
execute_run(request, request_id, output_len) ==
    /\ \A i \in 1..Len(events) : events[i].request_id # request_id
    /\ LET a == authenticate(settings, request.tenant_id, request.x_tenant_id,
                             request.x_customer_id, request.x_api_key,
                             request.authorization)
           out == IF ~call_binds THEN [status |-> 500, stage |-> "raised"]
                  ELSE IF a.status # 200 THEN [status |-> a.status, stage |-> "auth"]
                  ELSE admit(request)
           k == run_rate_key(request.tenant_id)
           limited == out.stage \in {"rate", "quota", "record"}
       IN  /\ run' = [request |-> request, status |-> out.status,
                      summary_read |-> out.stage \in {"quota", "record"}]
           /\ counters' = IF limited /\ rate_limit_backend = "memory"
                          THEN fixed_stored(k, now_window) ELSE counters
           /\ redis' = IF limited /\ rate_limit_backend = "redis"
                       THEN limiter_redis_after(k) ELSE redis
           /\ events' = IF out.stage = "record"
                        THEN usage_record(events,
                               [request_id |-> request_id,
                                tenant_id |-> request.tenant_id,
                                tokens_in |-> token_estimate(request.message_len),
                                tokens_out |-> token_estimate(output_len),
                                created_at |-> utc_now])
                        ELSE events
           /\ last' = Returned("execute_run", request.tenant_id, out.status)
    /\ UNCHANGED <<queue_state, inprocess, now, pc, rate_limit_backend, default_rate_limit_rpm,
                   fail_open, call, rate_hist, plans, settings, quota, auth>>

\* a deployment with a static key for tenant 1
keyed_settings ==
    [default_settings EXCEPT !.tenant_api_keys = [t \in AuthTenants |-> IF t = 1 THEN 1 ELSE 0]]

RunInit ==
    /\ Construction /\ transport = "database" /\ LimiterDefault
    /\ plans = [n \in PlanNames |-> IF n = "starter" THEN PlanOf(n, TRUE)
                                    ELSE IF n = "growth" THEN PlanOf(n, FALSE)
                                    ELSE NoPlan]
    /\ settings = keyed_settings
    /\ events = <<>>
    /\ quota = NoQuota
    /\ auth = NoAuth
    /\ run = NoRun

RunNext ==
    \/ Tick
    \/ \E request \in RunRequests, request_id \in RequestIds :
          execute_run(request, request_id, 4)
    \/ \E p \in Procs :
        \/ \E t \in TenantIds, j \in JobIds : create_tenant(p, t, "starter", j)
        \/ EnqueueSteps(p)
        \/ ClaimRoom /\ claim_next(p)
        \/ claim_next_set(p)
        \/ ProcessSteps(p)

RunSpec == RunInit /\ [][RunNext]_vars

\* ------------------------------------------------- the advisory bus
\* queue.get_job(job_id) through the wrapper
get_job_call(p, id) ==
    /\ pc[p] = "idle"
    /\ last' = Returned("get_job", id, get_job(id))
    /\ UNCHANGED <<config, inprocess, limiter, admission, now, jobs, job_order, tenants, bus, locals, hist>>

\* the bus delivers a message twice, or delivers a stale one
bus_duplicate ==
    /\ Wrapped
    /\ signals + hidden < MaxSignals
    /\ signals' = signals + 1
    /\ last' = NoCall
    /\ UNCHANGED <<config, inprocess, limiter, admission, now, jobs, job_order, tenants, hidden, inflight, locals, hist>>

\* the bus loses a visible message
bus_drop ==
    /\ signals > 0
    /\ signals' = signals - 1
    /\ last' = NoCall
    /\ UNCHANGED <<config, inprocess, limiter, admission, now, jobs, job_order, tenants, hidden, inflight, locals, hist>>

\* the worker behind a wrapper whose bus calls return
HealthySteps(p) ==
    \/ worker_get_tenant(p)
    \/ worker_get_tenant_raises(p)
    \/ worker_activate(p)
    \/ worker_activate_raises(p)
    \/ worker_mark_done(p, TRUE)
    \/ worker_handler(p, TRUE)
    \/ worker_tenant_missing(p, TRUE)

AdvisoryNext ==
    \/ Tick
    \/ bus_redeliver
    \/ bus_duplicate
    \/ bus_drop
    \/ \E p \in Procs :
        \/ \E j \in KeyedSubmitted : EnqueueCall(p, j)
        \/ \E t \in TenantIds, j \in JobIds : create_tenant(p, t, "starter", j)
        \/ EnqueueSteps(p)
        \/ ClaimRoom /\ claim_next(p)
        \/ HealthySteps(p)
        \/ \E id \in JobIds : get_job_call(p, id)

AdvisorySpec == WrapInit /\ [][AdvisoryNext]_vars

\* ------------------------------------------------- in-process locks and the JWKS cache
Payloads == 1..NumPayloads
TtlSettings == {-1, 0, 1}
RemotePositions == {"jwks_fetch", "datastore", "gateway"}

\* a return of _get_jwks_payload, by value or by HTTPException
JwksReturns(p, result) ==
    /\ pc' = [pc EXCEPT ![p] = "idle"]
    /\ jwks_call' = [jwks_call EXCEPT ![p] = NoJwksCall]
    /\ last' = Returned("get_jwks_payload", p, result)

\* _decode_bearer_jwt_with_jwks passes max(jwt_jwks_cache_ttl_seconds, 0);
\* _get_jwks_payload reads now = time.time() before it asks for the lock
get_jwks_payload_begin(p, ttl) ==
    /\ pc[p] = "idle"
    /\ jwks_call' = [jwks_call EXCEPT ![p] =
                       [now |-> now, cache_ttl_seconds |-> Max2(ttl, 0), payload |-> 0]]
    /\ pc' = [pc EXCEPT ![p] = "jwks_lookup"]
    /\ last' = NoCall
    /\ UNCHANGED <<queue_state, admission, limiter, now, locks, jwks_cache>>

\* with _JWKS_CACHE_LOCK: the first block is entered
jwks_lookup_enter(p) ==
    /\ pc[p] = "jwks_lookup"
    /\ locks.jwks = Unlocked
    /\ locks' = [locks EXCEPT !.jwks = p]
    /\ pc' = [pc EXCEPT ![p] = "jwks_cached"]
    /\ last' = NoCall
    /\ UNCHANGED <<queue_state, admission, limiter, now, jwks_cache, jwks_call>>

cached_fresh_at_expiry(cached, t) ==
    /\ cached # NoCacheEntry
    /\ cached.expires_at >= t

\* cached and cached[0] > now
cached_fresh(cached, t) ==
    /\ cached # NoCacheEntry
    /\ cached.expires_at > t

lock_during_fetch_kept(p) == p

\* the first with block ends before request.urlopen is called
lock_during_fetch(p) == Unlocked

\* cached = _JWKS_CACHE.get(jwks_url); a fresh entry is returned from the block
jwks_lookup(p) ==
    /\ pc[p] = "jwks_cached"
    /\ IF cached_fresh(jwks_cache, jwks_call[p].now)
       THEN /\ locks' = [locks EXCEPT !.jwks = Unlocked]
            /\ JwksReturns(p, jwks_cache.payload)
       ELSE /\ locks' = [locks EXCEPT !.jwks = lock_during_fetch(p)]
            /\ pc' = [pc EXCEPT ![p] = "jwks_fetch"]
            /\ last' = NoCall
            /\ UNCHANGED jwks_call
    /\ UNCHANGED <<queue_state, admission, limiter, now, jwks_cache>>

\* request.urlopen(jwks_url, timeout=5) answers with a JSON object
jwks_fetch(p, payload) ==
    /\ pc[p] = "jwks_fetch"
    /\ jwks_call' = [jwks_call EXCEPT ![p].payload = payload]
    /\ pc' = [pc EXCEPT ![p] = "jwks_store"]
    /\ last' = NoCall
    /\ UNCHANGED <<queue_state, admission, limiter, now, locks, jwks_cache>>

\* the except clause raises before _JWKS_CACHE is assigned
cache_after_failure(cached) == cached

\* urlopen, the decoding or the object test raises: HTTPException(401)
jwks_fetch_raises(p) ==
    /\ pc[p] = "jwks_fetch"
    /\ jwks_cache' = cache_after_failure(jwks_cache)
    /\ JwksReturns(p, 401)
    /\ UNCHANGED <<queue_state, admission, limiter, now, locks>>

\* with _JWKS_CACHE_LOCK: the second block is entered
jwks_store_enter(p) ==
    /\ pc[p] = "jwks_store"
    /\ locks.jwks = Unlocked
    /\ locks' = [locks EXCEPT !.jwks = p]
    /\ pc' = [pc EXCEPT ![p] = "jwks_storing"]
    /\ last' = NoCall
    /\ UNCHANGED <<queue_state, admission, limiter, now, jwks_cache, jwks_call>>

\* _JWKS_CACHE[jwks_url] = (now + max(cache_ttl_seconds, 0), payload); return payload
jwks_store(p) ==
    /\ pc[p] = "jwks_storing"
    /\ jwks_cache' = [expires_at |-> jwks_call[p].now + Max2(jwks_call[p].cache_ttl_seconds, 0),
                      payload |-> jwks_call[p].payload]
    /\ locks' = [locks EXCEPT !.jwks = Unlocked]
    /\ JwksReturns(p, jwks_call[p].payload)
    /\ UNCHANGED <<queue_state, admission, limiter, now>>

\* FixedWindowRateLimiter.allow: with self._lock is entered
fixed_allow_enter(p) ==
    /\ pc[p] = "allow_body"
    /\ rate_limit_backend = "memory"
    /\ locks.limiter = Unlocked
    /\ locks' = [locks EXCEPT !.limiter = p]
    /\ pc' = [pc EXCEPT ![p] = "allow_locked"]
    /\ last' = NoCall
    /\ UNCHANGED <<queue_state, admission, limiter, now, jwks_cache, jwks_call>>

\* the body under self._lock runs and the block is left by its return
fixed_allow_leave(p) ==
    /\ pc[p] = "allow_locked"
    /\ fixed_allow_block(p)
    /\ locks' = [locks EXCEPT !.limiter = Unlocked]
    /\ UNCHANGED <<queue_state, admission, now, rate_limit_backend, default_rate_limit_rpm,
                   fail_open, redis, jwks_cache, jwks_call>>

\* execute_run calls ctx.usage.summarize_tenant_month (a datastore query)
\* or ctx.gateway.execute from outside every with block
remote_call(p, kind) ==
    /\ pc[p] = "idle"
    /\ pc' = [pc EXCEPT ![p] = kind]
    /\ last' = NoCall
    /\ UNCHANGED <<queue_state, admission, limiter, now, inprocess>>

remote_return(p) ==
    /\ pc[p] \in {"datastore", "gateway"}
    /\ pc' = [pc EXCEPT ![p] = "idle"]
    /\ last' = NoCall
    /\ UNCHANGED <<queue_state, admission, limiter, now, inprocess>>

\* wall-clock time passes under the cache
JwksTick ==
    /\ now < MaxJwksTime
    /\ now' = now + 1
    /\ last' = NoCall
    /\ UNCHANGED <<queue_state, admission, limiter, pc, inprocess>>

\* Threads of one API process: token verification over the JWKS cache,
\* either limiter, datastore and gateway calls.
LockInit ==
    /\ Init
    /\ QueueDefault
    /\ default_rate_limit_rpm = 1
    /\ fail_open

LockNext ==
    \/ JwksTick
    \/ \E p \in Procs :
        \/ \E ttl \in TtlSettings : get_jwks_payload_begin(p, ttl)
        \/ jwks_lookup_enter(p)
        \/ jwks_lookup(p)
        \/ \E payload \in Payloads : jwks_fetch(p, payload)
        \/ jwks_fetch_raises(p)
        \/ jwks_store_enter(p)
        \/ jwks_store(p)
        \/ \E k \in RateKeys : allow_begin(p, k)
        \/ fixed_allow_enter(p)
        \/ fixed_allow_leave(p)
        \/ redis_allow_incr(p)
        \/ redis_allow_expire(p)
        \/ \E kind \in {"datastore", "gateway"} : remote_call(p, kind)
        \/ remote_return(p)

LockSpec == LockInit /\ [][LockNext]_vars

\* ------------------------------------------------- admin authentication
Roles == {"platform_admin", "tenant_admin"}
Scopes == {"tenant.plan.write"}
AdminTenantIds == {"t1", "t2"}
Principals == [roles : SUBSET Roles, scopes : SUBSET Scopes,
               tenant_ids : SUBSET (AdminTenantIds \cup {"*"})]

\* _decode_bearer_jwt: the status it ends with and the verifier that was
\* handed the token ("none" where it raises before any verification)
decode_bearer_jwt_outcome(st, authorization) ==
    IF authorization = NoToken
    THEN [status |-> 401, verifier |-> "none"]
    ELSE IF is_jwks_enabled(st)
    THEN IF st.jwks # "full"
         THEN [status |-> 500, verifier |-> "none"]
         ELSE [status |-> IF authorization.signer = "jwks" THEN 200 ELSE 401,
               verifier |-> "jwks"]
    ELSE IF st.jwt_shared_secret
    THEN [status |-> IF authorization.signer = "secret" THEN 200 ELSE 401,
          verifier |-> "secret"]
    ELSE [status |-> 500, verifier |-> "none"]

\* AdminAuthService.authenticate: it raises exactly where _decode_bearer_jwt does
admin_authenticate_call(authorization) ==
    /\ auth = NoAuth
    /\ LET out == decode_bearer_jwt_outcome(settings, authorization)
       IN  auth' = [op |-> "admin_authenticate", authorization |-> authorization,
                    status |-> out.status, verifier |-> out.verifier]
    /\ UNCHANGED <<queue_state, inprocess, limiter, now, pc, last, plans, settings, events, quota, run>>

is_platform_admin(principal) == "platform_admin" \in principal.roles

can_access_tenant_listed(principal, tenant_id) ==
    \/ "*" \in principal.tenant_ids
    \/ tenant_id \in principal.tenant_ids

\* AdminPrincipal.can_access_tenant
can_access_tenant(principal, tenant_id) ==
    \/ is_platform_admin(principal)
    \/ "*" \in principal.tenant_ids
    \/ tenant_id \in principal.tenant_ids

\* AdminAuthService.authorize: 403 where it raises, 200 where it returns;
\* an empty set stands for None as well, and "" for no tenant_id
authorize(principal, required_roles, required_scopes, tenant_id) ==
    LET role_ok == required_roles # {} /\ principal.roles \cap required_roles # {}
        scope_ok == required_scopes # {} /\ principal.scopes \cap required_scopes # {}
    IN  IF (required_roles # {} \/ required_scopes # {}) /\ ~(role_ok \/ scope_ok)
        THEN 403
        ELSE IF tenant_id # "" /\ ~can_access_tenant(principal, tenant_id)
        THEN 403
        ELSE 200

authorize_call(principal, required_roles, required_scopes, tenant_id) ==
    /\ auth = NoAuth
    /\ auth' = [op |-> "authorize", principal |-> principal,
                required_roles |-> required_roles, required_scopes |-> required_scopes,
                tenant_id |-> tenant_id,
                status |-> authorize(principal, required_roles, required_scopes, tenant_id)]
    /\ UNCHANGED <<queue_state, inprocess, limiter, now, pc, last, plans, settings, events, quota, run>>

\* An admin endpoint under every token-verification configuration.
AdminInit ==
    /\ Construction /\ QueueDefault /\ LimiterDefault
    /\ plans = default_plans
    /\ settings \in {st \in SettingsSpace :
                       /\ st.app_env = "dev"
                       /\ \A t \in AuthTenants : st.tenant_api_keys[t] = 0}
    /\ events = <<>>
    /\ quota = NoQuota
    /\ auth = NoAuth
    /\ run = NoRun

AdminNext ==
    \/ \E authorization \in {NoToken} \cup Tokens : admin_authenticate_call(authorization)
    \/ \E principal \in Principals, required_roles \in SUBSET Roles,
          required_scopes \in SUBSET Scopes, tenant_id \in AdminTenantIds \cup {""} :
            authorize_call(principal, required_roles, required_scopes, tenant_id)

AdminSpec == AdminInit /\ [][AdminNext]_vars

\* ------------------------------------------------- run requests against an exhausted plan
\* a plan stored through POST /v1/admin/plans with monthly_messages = 0
exhausted_plan(n) == [PlanOf(n, TRUE) EXCEPT !.monthly_messages = 0]

\* Run requests of a keyed tenant whose plan admits no message, the tenant
\* created and activated on the PostgreSQL store.
SlotInit ==
    /\ Construction
    /\ backend = "postgres"
    /\ transport = "database"
    /\ default_max_attempts = 1
    /\ retry_base_seconds = 0
    /\ default_rate_limit_rpm = 1
    /\ fail_open
    /\ plans = [n \in PlanNames |-> IF n = "starter" THEN exhausted_plan(n) ELSE NoPlan]
    /\ settings = keyed_settings
    /\ events = <<>>
    /\ quota = NoQuota
    /\ auth = NoAuth
    /\ run = NoRun

SlotNext ==
    \/ \E request \in RunRequests, request_id \in RequestIds :
          execute_run(request, request_id, 4)
    \/ \E p \in Procs :
        \/ \E t \in TenantIds, j \in JobIds : create_tenant(p, t, "starter", j)
        \/ EnqueueSteps(p)
        \/ ClaimRoom /\ claim_next(p)
        \/ worker_get_tenant(p)
        \/ worker_activate(p)
        \/ worker_mark_done(p, TRUE)

SlotSpec == SlotInit /\ [][SlotNext]_vars

\* ------------------------------------------------- claims
Holder(p, j) == pc[p] \in Holds /\ job[p].job_id = j

\* C1: between a job's transition to running and the next mark_* on it, at
\* most one caller has received the job from claim_next.
C1_ExclusiveClaim == \A j \in JobIds : hist[j].recv <= 1

\* C2: no two stored jobs have the same idempotency_key.
C2_UniqueIdempotencyKey ==
    \A i, j \in StoredJobs : i # j => jobs[i].idempotency_key # jobs[j].idempotency_key

\* C3: an enqueue whose idempotency key is that of an already stored job
\* returns without changing any stored job or the queue order, stores no row
\* under the new job_id, and get_job of the new job_id returns none.
C3_DuplicateEnqueueNoop ==
    [][\A p \in Procs :
         ( /\ pc[p] = "enq_scan"
           /\ pc'[p] # "enq_scan"
           /\ \E i \in JobIds : /\ jobs[i] # NoJob
                                /\ jobs[i].idempotency_key = EffectiveKey(job[p]) )
         => /\ pc'[p] = "idle"
            /\ jobs' = jobs
            /\ job_order' = job_order
            /\ last' = Returned("enqueue", job[p].job_id, "duplicate")
            /\ jobs'[job[p].job_id] = NoJob]_vars

\* C3 witness: a duplicate enqueue has just returned while the job that owns
\* the key is already done, and the new job_id is not stored.
C3_Witness ==
    /\ last = Returned("enqueue", 2, "duplicate")
    /\ get_job(2) = NoJob
    /\ get_job(1) # NoJob
    /\ get_job(1).state = "done"

\* C4: the number of running -> queued transitions of a job is strictly less
\* than the job's max_attempts.
C4_BoundedAttempts ==
    \A j \in StoredJobs : hist[j].requeues < jobs[j].max_attempts

\* C5: every stored job has retries <= max_attempts.
C5_RetriesWithinMaxAttempts ==
    \A j \in StoredJobs : jobs[j].retries <= jobs[j].max_attempts

\* C6: once a job's stored state is done or dead_letter, no step changes it.
C6_TerminalAbsorbing ==
    [][\A j \in JobIds :
         (jobs[j] # NoJob /\ jobs[j].state \in Terminal)
         => jobs'[j].state = jobs[j].state]_vars

\* C7: the only state changes of a stored job are queued -> running,
\* running -> done, running -> queued and running -> dead_letter.
C7_LegalTransitions ==
    [][\A j \in JobIds :
         (jobs[j] # NoJob /\ jobs'[j].state # jobs[j].state)
         => <<jobs[j].state, jobs'[j].state>> \in
              {<<"queued", "running">>, <<"running", "done">>,
               <<"running", "queued">>, <<"running", "dead_letter">>}]_vars

\* C8: a tenant whose status is active never goes back to pending.
C8_MonotoneActivation ==
    [][\A t \in TenantIds :
         (tenants[t] # NoTenant /\ tenants[t].status = "active")
         => tenants'[t].status = "active"]_vars

\* C9: a job is handed out by claim_next at most attempt_budget times.
C9_ClaimsWithinBudget ==
    \A j \in StoredJobs : hist[j].claims <= attempt_budget(jobs[j])

\* C10: a job left in state running by a worker that stopped before its
\* mark_* eventually leaves state running (becomes claimable again).
Abandoned(j) ==
    /\ jobs[j] # NoJob
    /\ jobs[j].state = "running"
    /\ \A p \in Procs : ~Holder(p, j)

C10_AbandonedJobReclaimed ==
    \A j \in JobIds : Abandoned(j) ~> ~(jobs[j] # NoJob /\ jobs[j].state = "running")

\* C11: process_next_job returns true exactly when the claimed job ended done
\* with its tenant stored and active; with nothing to claim it returns false
\* and changes neither the queue nor the catalog; a job whose tenant is already
\* active goes on to mark_done without a write to the catalog.
C11_TrueIffActivatedAndDone ==
    [][/\ \A id \in JobIds :
            /\ last' = Returned("process_next_job", id, "true")
                 => /\ jobs'[id].state = "done"
                    /\ tenants'[jobs'[id].tenant_id] # NoTenant
                    /\ tenants'[jobs'[id].tenant_id].status = "active"
            /\ last' = Returned("process_next_job", id, "false")
                 => jobs'[id].state # "done"
       /\ last' = Returned("process_next_job", 0, "false")
            => jobs' = jobs /\ job_order' = job_order /\ tenants' = tenants
       /\ \A p \in Procs :
            ( /\ pc[p] = "get_tenant"
              /\ pc'[p] # "get_tenant"
              /\ get_tenant(job[p].tenant_id) # NoTenant
              /\ get_tenant(job[p].tenant_id).status = "active" )
            => pc'[p] \in {"mark_done", "handler"} /\ tenants' = tenants]_vars

\* C12: a claimed job whose tenant is missing is dead-lettered by the same
\* invocation with error "tenant not found" and retries + 1, the invocation
\* returns false there, and no later step of it takes the job out of
\* dead_letter.
MissingSeen(p) ==
    /\ pc[p] = "handler"
    /\ jobs[job[p].job_id].state = "dead_letter"
    /\ jobs[job[p].job_id].error = "tenant not found"

C12_MissingTenantDeadLetters ==
    [][\A p \in Procs :
         /\ (pc[p] = "dl_missing" /\ pc'[p] # "dl_missing")
              => jobs'[job[p].job_id] =
                   [jobs[job[p].job_id] EXCEPT !.state = "dead_letter",
                                               !.error = "tenant not found",
                                               !.retries = @ + 1]
         /\ (MissingSeen(p) /\ pc'[p] # "handler")
              => jobs'[job[p].job_id].state = "dead_letter"
         /\ (pc[p] = "dl_missing" /\ pc'[p] = "idle")
              => last' = Returned("process_next_job", job[p].job_id, "false")]_vars

\* C13: when processing raised, the handler re-queues the job with retries + 1
\* and available_at = now + retry_base_seconds * 2^r, r the stored retries
\* before the increment, if job.retries + 1 is below the attempt budget, and
\* dead-letters it without scheduling a retry otherwise.
C13_BackoffOrDeadLetter ==
    [][\A p \in Procs :
         (pc[p] = "handler" /\ pc'[p] = "idle")
         => LET id == job[p].job_id
                before == jobs[id]
                after == jobs'[id]
            IN IF job[p].retries + 1 < Max3(job[p].max_attempts, default_max_attempts, 1)
               THEN /\ after.state = "queued"
                    /\ after.retries = before.retries + 1
                    /\ after.available_at =
                         now + retry_base_seconds * Pow2(before.retries)
               ELSE /\ after.state = "dead_letter"
                    /\ after.available_at = before.available_at]_vars

\* C14: the job claim_next hands out was queued and due (available_at <= now)
\* when it was handed out.
C14_ClaimsOnlyDueQueued ==
    [][\A p \in Procs :
         (pc[p] \in {"idle", "claim_set"} /\ pc'[p] = "get_tenant")
         => /\ jobs[job'[p].job_id].state = "queued"
            /\ jobs[job'[p].job_id].available_at <= now]_vars

\* C15: the job claim_next selects has, among the eligible jobs, the smallest
\* available_at and, among those, the smallest created_at.
C15_ClaimOrder ==
    [][\A p \in Procs :
         (pc[p] = "idle" /\ pc'[p] \in {"claim_set", "get_tenant"})
         => \A k \in JobIds :
              Eligible(k) =>
                LET got == jobs[job'[p].job_id] IN
                \/ got.available_at < jobs[k].available_at
                \/ /\ got.available_at = jobs[k].available_at
                   /\ got.created_at <= jobs[k].created_at]_vars

\* C16: the job stored by an enqueue has state queued and retries 0, whatever
\* the submitted object carried.
C16_StoredQueuedZeroRetries ==
    [][\A id \in JobIds :
         last' = Returned("enqueue", id, "stored")
         => jobs'[id].state = "queued" /\ jobs'[id].retries = 0]_vars

\* C17: for every key and minute window, at most requests_per_minute of the
\* allow(key) calls that ran inside that window returned true.
C17_AtMostLimitPerWindow ==
    \A k \in RateKeys, w \in Windows :
        rate_hist[k][w].inside <= requests_per_minute

\* C18: a call of window w is refused only when requests_per_minute calls of
\* window w have been let through, whatever happened in earlier windows: the
\* first requests_per_minute calls of a window return true.
LetThrough(k, w) ==
    rate_hist[k][w].granted
      + Cardinality({q \in Procs : /\ pc[q] = "allow_expire"
                                   /\ call[q].key = k
                                   /\ call[q].now_window = w})

C18_WindowStartsAtZero ==
    [][\A p \in Procs :
         ( /\ pc[p] \in {"allow_body", "allow_expire"}
           /\ pc'[p] = "idle"
           /\ last' = Returned("allow", call[p].key, "false") )
         => LetThrough(call[p].key, call[p].now_window) >= requests_per_minute]_vars

\* C18 witness: a call of window 1 has just returned true after window 0 let
\* through its whole limit and refused a call.
C18_Witness ==
    /\ last = Returned("allow", 1, "true")
    /\ now_window = 1
    /\ rate_hist[1][1].inside >= 1
    /\ rate_hist[1][0].granted >= requests_per_minute
    /\ rate_hist[1][0].denied >= 1

\* C19: driven by one process with the same calls at the same clock values,
\* the two limiters return the same boolean for every call.
C19_SameAnswers ==
    last.op = "allow_pair" => last.fixed = last.redis

\* C19 witness: both limiters have just refused a call in the second window,
\* after calls in the first.
C19_Witness ==
    /\ last.op = "allow_pair"
    /\ ~last.fixed
    /\ ~last.redis
    /\ now_window = 1
    /\ rate_hist[1][0].calls >= 1

\* C20: when a call to the counter store raises, allow returns true if
\* fail_open and raises if not; it raises in no other case.
StoreRaised(p) ==
    /\ pc[p] \in {"allow_body", "allow_expire"}
    /\ pc'[p] = "idle"
    /\ rate_hist' = rate_hist

C20_FailOpenOrPropagate ==
    [][\A p \in Procs :
         /\ StoreRaised(p)
              => last' = Returned("allow", call[p].key,
                                  IF fail_open THEN "true" ELSE "raised")
         /\ ( /\ pc[p] \in {"allow_body", "allow_expire"}
              /\ pc'[p] = "idle"
              /\ last' = Returned("allow", call[p].key, "raised") )
              => StoreRaised(p) /\ ~fail_open]_vars

\* C20 witness: with fail_open off, allow has just raised after the key was
\* counted (the expire call failed).
C20_Witness ==
    /\ ~fail_open
    /\ last = Returned("allow", 1, "raised")
    /\ redis[0][1].count = 1

\* C24: allow_request(policy, counter, estimated_tokens) is true exactly when
\* messages_used + 1 <= included_messages and tokens_used +
\* max(estimated_tokens, 0) <= hard_token_cap, for non-negative counters and
\* caps and any estimate, and the policy and the counter it was given are
\* the same after the call.
C24_QuotaFormula ==
    quota # NoQuota =>
        /\ (quota.result = "true") <=>
              /\ quota.counter.messages_used + 1 <= quota.policy.included_messages
              /\ quota.counter.tokens_used
                    + (IF quota.estimated_tokens > 0 THEN quota.estimated_tokens ELSE 0)
                 <= quota.policy.hard_token_cap
        /\ quota.result \in {"true", "false"}
        /\ quota.policy_after = quota.policy
        /\ quota.counter_after = quota.counter

\* a call with a negative estimate that is admitted at the token cap
C24_Witness ==
    /\ quota # NoQuota
    /\ quota.estimated_tokens < 0
    /\ quota.counter.tokens_used = quota.policy.hard_token_cap
    /\ quota.counter.tokens_used > 0
    /\ quota.result = "true"

\* the call passed header presence and path-header agreement
PastHeaders ==
    /\ auth # NoAuth
    /\ auth.x_tenant_id # 0
    /\ auth.x_customer_user_id # 0
    /\ auth.path_tenant_id = auth.x_tenant_id

KeyMatches ==
    /\ auth.x_api_key # 0
    /\ settings.tenant_api_keys[auth.x_tenant_id] = auth.x_api_key

TokenVerified == decode_bearer_jwt(settings, auth.authorization) # NoToken

TokenForTenant ==
    TokenVerified /\ auth.authorization.tenant_id = auth.x_tenant_id

TokenMatches ==
    TokenForTenant /\ auth.authorization.subject = auth.x_customer_user_id

C22_Witness ==
    /\ PastHeaders /\ auth_configured(settings)
    /\ ~KeyMatches /\ auth.x_api_key # 0
    /\ settings.tenant_api_keys[auth.x_tenant_id] # 0
    /\ TokenMatches
    /\ auth.status = 200

IsProduction(e) == e \in {"prod", "PROD", "production", " Production "}

\* C23: with no key, secret or JWKS setting configured, a call past the
\* header checks fails with 500 in a production environment and in every
\* other environment returns the header tenant and customer-user ids,
\* whatever credentials it carries.
C23_UnconfiguredAuth ==
    (/\ PastHeaders
     /\ \A t \in AuthTenants : settings.tenant_api_keys[t] = 0
     /\ ~settings.jwt_shared_secret
     /\ settings.jwks = "off") =>
        IF IsProduction(settings.app_env)
        THEN auth.status = 500
        ELSE /\ auth.status = 200
             /\ auth.tenant_id = auth.x_tenant_id
             /\ auth.customer_user_id = auth.x_customer_user_id

\* an unconfigured production deployment written " Production " refuses a
\* call that carries a key and a token
C23_Witness ==
    /\ PastHeaders
    /\ ~auth_configured(settings)
    /\ settings.app_env = " Production "
    /\ auth.x_api_key # 0 /\ auth.authorization # NoToken
    /\ auth.status = 500

\* the step is a call record(event)
Recording(event) ==
    /\ last' = Returned("record", event.request_id, event)
    /\ events' = usage_record(events, event)

SameSummaries ==
    \A m \in Months :
        /\ summarize_all_tenants_month(events', m) = summarize_all_tenants_month(events, m)
        /\ \A t \in UsageTenantIds :
              summarize_tenant_month(events', t, m) = summarize_tenant_month(events, t, m)

\* C25: on both meters, recording again an event that is already recorded,
\* with the same request_id and the same values, leaves every
\* summarize_tenant_month and summarize_all_tenants_month result as it was
\* after the first recording.
C25_RecordIdempotent ==
    [][\A event \in UsageEvents :
          (Recording(event) /\ \E i \in 1..Len(events) : events[i] = event)
             => SameSummaries]_vars

\* C26: a record call whose request_id is already stored, with other field
\* values, changes neither the stored event nor any summary.
C26_FirstWriteWins ==
    [][\A event \in UsageEvents :
          (/\ Recording(event)
           /\ \E i \in 1..Len(events) :
                 events[i].request_id = event.request_id /\ events[i] # event)
             => (events' = events /\ SameSummaries)]_vars

\* C27: for every tenant and month, messages_used of summarize_tenant_month
\* never decreases from one state to the next.
C27_MessagesUsedMonotone ==
    [][\A t \in UsageTenantIds, m \in Months :
          summarize_tenant_month(events', t, m).messages_used
             >= summarize_tenant_month(events, t, m).messages_used]_vars

MonthStart(m) == (m[1] * 12 + (m[2] - 1)) * MonthLen
Following(m) == IF m[2] = 12 THEN <<m[1] + 1, 1>> ELSE <<m[1], m[2] + 1>>
InMonth(d, m) == MonthStart(m) <= d /\ d < MonthStart(Following(m))
MonthRows(t, m) ==
    {i \in 1..Len(events) :
        events[i].tenant_id = t /\ InMonth(events[i].created_at, m)}

RECURSIVE TokensOf(_)
TokensOf(I) ==
    IF I = {} THEN 0
    ELSE LET i == CHOOSE x \in I : TRUE
         IN  events[i].tokens_in + events[i].tokens_out + TokensOf(I \ {i})

\* C28: summarize_tenant_month(t, m) counts exactly the stored events of t
\* whose created_at is at or after the first instant of month m and before
\* the first instant of the following month (January of the next year after
\* December); messages_used is their number, tokens_used the sum of their
\* tokens_in + tokens_out, and both are zero when there is none.
C28_MonthAggregate ==
    \A t \in UsageTenantIds, m \in Months :
        LET s == summarize_tenant_month(events, t, m)
        IN  /\ s.messages_used = Cardinality(MonthRows(t, m))
            /\ s.tokens_used = TokensOf(MonthRows(t, m))
            /\ MonthRows(t, m) = {} => s.messages_used = 0 /\ s.tokens_used = 0

\* one tenant with an event at the last instant of December and one at the
\* first instant of January, on the Postgres meter
C28_Witness ==
    /\ backend = "postgres"
    /\ \E i, k \in 1..Len(events) :
          /\ events[i].tenant_id = 1 /\ events[k].tenant_id = 1
          /\ events[i].created_at = MonthStart(<<1, 1>>) - 1
          /\ events[k].created_at = MonthStart(<<1, 1>>)
    /\ summarize_tenant_month(events, 1, <<0, 12>>).messages_used = 1
    /\ summarize_tenant_month(events, 1, <<0, 11>>).messages_used = 0

\* C29: summarize_all_tenants_month(m) has exactly one record for each
\* tenant with an event in month m, in ascending tenant_id order, and each
\* record carries the messages_used and tokens_used of
\* summarize_tenant_month for that tenant and month.
C29_ExportPerTenant ==
    \A m \in Months :
        LET r == summarize_all_tenants_month(events, m)
        IN  /\ {r[i].tenant_id : i \in 1..Len(r)}
                 = {t \in UsageTenantIds : MonthRows(t, m) # {}}
            /\ \A i, k \in 1..Len(r) : i < k => r[i].tenant_id < r[k].tenant_id
            /\ \A i \in 1..Len(r) :
                  LET s == summarize_tenant_month(events, r[i].tenant_id, m)
                  IN  /\ r[i].messages_used = s.messages_used
                      /\ r[i].tokens_used = s.tokens_used

\* the in-memory meter saw tenant 2 before tenant 1 in the same month and
\* exports two records, one of them for two events
C29_Witness ==
    /\ backend = "memory"
    /\ Len(events) = 3
    /\ events[1].tenant_id = 2 /\ events[2].tenant_id = 1 /\ events[3].tenant_id = 2
    /\ \A i \in 1..3 : strftime_month(events[i].created_at) = <<0, 12>>
    /\ Len(summarize_all_tenants_month(events, <<0, 12>>)) = 2
    /\ summarize_all_tenants_month(events, <<0, 12>>)[2].messages_used = 2

BootstrapJobs(js, t) ==
    {j \in JobIds : js[j] # NoJob /\ js[j].tenant_id = t}

\* C30: POST /v1/tenants with an existing, active plan stores the tenant as
\* pending and, when its enqueue returns, the tenant is still pending and has
\* exactly one job, queued, with idempotency key <tenant_id>:bootstrap; with
\* an unknown or inactive plan it returns 400 and stores no tenant and no job.
C30_CreateTenant ==
    [][/\ \A t \in TenantIds :
            (tenants[t] = NoTenant /\ tenants'[t] # NoTenant) =>
                /\ plans[tenants'[t].plan] # NoPlan
                /\ plans[tenants'[t].plan].active
                /\ tenants'[t].status = "pending"
                /\ \E p \in Procs :
                      /\ pc[p] = "idle" /\ pc'[p] = "enq_scan"
                      /\ job'[p].tenant_id = t
                      /\ job'[p].idempotency_key = <<"bootstrap", t>>
       /\ \A p \in Procs :
            (/\ pc[p] \in {"enq_scan", "enq_insert"} /\ pc'[p] = "idle"
             /\ job[p].idempotency_key = <<"bootstrap", job[p].tenant_id>>) =>
                LET t == job[p].tenant_id
                IN  /\ tenants'[t] # NoTenant
                    /\ tenants'[t].status = "pending"
                    /\ Cardinality(BootstrapJobs(jobs', t)) = 1
                    /\ \A j \in BootstrapJobs(jobs', t) :
                          /\ jobs'[j].state = "queued"
                          /\ jobs'[j].idempotency_key = <<"bootstrap", t>>
       /\ \A plan \in PlanNames :
            (last' = Returned("create_tenant", plan, 400) /\ last' # last) =>
                /\ plans[plan] = NoPlan \/ ~plans[plan].active
                /\ UNCHANGED <<tenants, jobs, job_order, pc, job>>
       /\ \A p \in Procs, plan \in PlanNames :
            (plans[plan] = NoPlan \/ ~plans[plan].active) =>
                ~(pc[p] = "idle" /\ pc'[p] = "enq_scan" /\ tenants' # tenants
                  /\ \E t \in TenantIds : tenants'[t] # NoTenant
                                          /\ tenants[t] = NoTenant
                                          /\ tenants'[t].plan = plan)
      ]_vars

\* a tenant was created on an active plan and has its one queued job, and a
\* later request naming an inactive plan was answered 400
C30_Witness ==
    /\ \E plan \in PlanNames :
          /\ last = Returned("create_tenant", plan, 400)
          /\ plans[plan] # NoPlan /\ ~plans[plan].active
    /\ \E t \in TenantIds :
          /\ tenants[t] # NoTenant /\ tenants[t].status = "pending"
          /\ Cardinality(BootstrapJobs(jobs, t)) = 1
          /\ \A j \in BootstrapJobs(jobs, t) : jobs[j].state = "queued"

AuthStatus(r) ==
    authenticate(settings, r.tenant_id, r.x_tenant_id, r.x_customer_id,
                 r.x_api_key, r.authorization).status

RunTenant(r) ==
    IF r.tenant_id \in TenantIds THEN tenants[r.tenant_id] ELSE NoTenant

RateDenied(r) == ~limiter_allows(run_rate_key(r.tenant_id))

QuotaDenied(r) ==
    LET plan == plans[RunTenant(r).plan]
        s == summarize_tenant_month(events, r.tenant_id, strftime_month(utc_now))
    IN  \/ s.messages_used + 1 > plan.monthly_messages
        \/ s.tokens_used + token_estimate(r.message_len) * 2 > plan.monthly_token_cap

\* the failure signal of the first gate that fails, in the order of the
\* pipeline, or 200
FirstFailure(r) ==
    IF r.x_tenant_id = 0 \/ r.x_customer_id = 0 THEN 400
    ELSE IF r.tenant_id # r.x_tenant_id THEN 403
    ELSE IF AuthStatus(r) # 200 THEN AuthStatus(r)
    ELSE IF RunTenant(r) = NoTenant THEN 404
    ELSE IF RunTenant(r).status # "active" THEN 409
    ELSE IF plans[RunTenant(r).plan] = NoPlan \/ ~plans[RunTenant(r).plan].active THEN 409
    ELSE IF RateDenied(r) THEN 429
    ELSE IF QuotaDenied(r) THEN 429
    ELSE 200

\* C21: a run request is answered with the failure signal of the first gate
\* that fails, the gates taken in the order header presence (400), path-header
\* agreement (403), authentication, tenant exists (404), tenant active (409),
\* plan exists and active (409), rate limit (429), monthly quota (429); the
\* usage summary is not read for a request the rate limiter denies, and a
\* pending tenant gets 409 until the worker has activated it.
C21_AdmissionOrder ==
    [][run' # run =>
          /\ run'.status = FirstFailure(run'.request)
          /\ (FirstFailure(run'.request) = 429 /\ RateDenied(run'.request))
                => ~run'.summary_read]_vars

\* a write of the durable queue that process p makes without a wrapper at
\* the place it has reached
DelegateWrite(p) ==
    LET id == job[p].job_id
    IN  \/ /\ pc[p] = "idle"
           /\ \E j \in delegate_claim_next : jobs' = [jobs EXCEPT ![j].state = "running"]
        \/ /\ pc[p] = "enq_insert"
           /\ jobs[id] = NoJob
           /\ jobs' = [jobs EXCEPT ![id] = postgres_row(job[p])]
        \/ /\ pc[p] = "mark_done" /\ jobs[id].state = "running"
           /\ jobs' = mark_done(jobs, id)
        \/ /\ pc[p] = "dl_missing" /\ jobs[id].state = "running"
           /\ jobs' = mark_dead_letter(jobs, id, "tenant not found")
        \/ /\ pc[p] = "handler" /\ jobs[id].state = "running"
           /\ jobs' = IF Exhausted(job[p])
                      THEN mark_dead_letter(jobs, id, "err")
                      ELSE mark_retry(jobs, id, "err", delay_seconds(job[p]))

C32_ReceiveAndHold ==
    [][/\ \A p \in Procs :
            (/\ pc[p] = "idle" /\ pc'[p] = "get_tenant"
             /\ signals' = signals - 1 /\ transport = "storage_queue")
                => job'[p].job_id \in inflight'
       /\ \A p \in Procs :
            (pc[p] \in {"mark_done", "handler", "dl_missing"} /\ pc'[p] = "idle")
                => (job[p].job_id \notin inflight' /\ hidden' = hidden)
       /\ (/\ last' = Returned("process_next_job", 0, "false")
           /\ pc' = pc
           /\ signals' = signals - 1)
             => (hidden' = hidden /\ inflight' = inflight)
      ]_vars

\* the remote call a thread has in progress
InRemoteCall(p) ==
    \/ pc[p] \in RemotePositions
    \/ pc[p] = "allow_expire"
    \/ pc[p] = "allow_body" /\ rate_limit_backend = "redis"

HeldBy(p) == {l \in DOMAIN locks : locks[l] = p}

\* C33: a thread that has a remote call in progress (the JWKS fetch, the
\* Redis round-trip of the limiter, a datastore query, the gateway call)
\* holds neither the rate limiter's mutex nor the JWKS cache lock.
C33_NoLockAcrossRemoteCall ==
    \A p \in Procs : InRemoteCall(p) => HeldBy(p) = {}

\* one thread fetches the JWKS while another thread is inside a with block
C33_Witness ==
    \E p \in Procs : \E q \in Procs \ {p} :
        /\ pc[p] = "jwks_fetch"
        /\ locks.jwks = q

\* C34: a failed JWKS fetch leaves the cache entry of the URL as it was and
\* ends the call with 401; a call returns the cached payload without a
\* fetch only if the entry's expires_at is strictly later than the time
\* the call read.
C34_FetchFailureAndFreshness ==
    [][\A p \in Procs :
        /\ (pc[p] = "jwks_fetch" /\ pc'[p] = "idle")
              => /\ jwks_cache' = jwks_cache
                 /\ last' = Returned("get_jwks_payload", p, 401)
        /\ (pc[p] = "jwks_cached" /\ pc'[p] = "idle")
              => /\ jwks_cache # NoCacheEntry
                 /\ jwks_cache.expires_at > jwks_call[p].now
                 /\ last' = Returned("get_jwks_payload", p, jwks_cache.payload)
      ]_vars

\* a fetch failed while an entry was cached, and a later call was served
\* from the cache
C34_Witness ==
    /\ jwks_cache # NoCacheEntry
    /\ \E p \in Procs : last = Returned("get_jwks_payload", p, 401)
    /\ \E q \in Procs : pc[q] = "jwks_cached" /\ cached_fresh(jwks_cache, jwks_call[q].now)

\* a call of AdminAuthService.authenticate that carried a bearer token
Decoded ==
    /\ auth # NoAuth
    /\ auth.op = "admin_authenticate"
    /\ auth.authorization # NoToken

\* C35 as stated: the JWKS verifier takes the token iff URL, issuer and
\* audience are all set; in every other configuration the shared secret
\* verifies the token when one is configured, and the call ends with 500
\* when none is.
C35_AllOrSecret ==
    Decoded =>
        /\ auth.verifier = "jwks" <=> settings.jwks = "full"
        /\ (settings.jwks # "full" /\ settings.jwt_shared_secret)
              => auth.verifier = "secret"
        /\ (settings.jwks # "full" /\ ~settings.jwt_shared_secret)
              => auth.status = 500

\* C35: the JWKS verifier takes the token iff URL, issuer and audience are
\* all set; when only some of the three are set the call ends with 500
\* whether or not a shared secret is configured; when none of the three is
\* set the shared secret verifies the token if one is configured, and the
\* call ends with 500 if none is.
C35_VerifierSelection ==
    Decoded =>
        /\ auth.verifier = "jwks" <=> settings.jwks = "full"
        /\ settings.jwks = "partial"
              => (auth.status = 500 /\ auth.verifier = "none")
        /\ (settings.jwks = "off" /\ settings.jwt_shared_secret)
              => auth.verifier = "secret"
        /\ (settings.jwks = "off" /\ ~settings.jwt_shared_secret)
              => auth.status = 500

\* a token signed with the shared secret under a partial JWKS configuration
C35_Witness ==
    /\ Decoded
    /\ settings.jwks = "partial"
    /\ settings.jwt_shared_secret
    /\ auth.authorization.signer = "secret"

\* C36: authorize returns iff (nothing is required, or the principal has
\* one of the required roles, or one of the required scopes) and (no
\* tenant_id is given, or the principal is a platform_admin, or its
\* tenant_ids hold "*" or the tenant_id); otherwise it raises 403.
C36_Authorize ==
    (auth # NoAuth /\ auth.op = "authorize") =>
        LET p == auth.principal
            permitted ==
                \/ auth.required_roles = {} /\ auth.required_scopes = {}
                \/ \E r \in auth.required_roles : r \in p.roles
                \/ \E s \in auth.required_scopes : s \in p.scopes
            tenant_open ==
                \/ auth.tenant_id = ""
                \/ "platform_admin" \in p.roles
                \/ "*" \in p.tenant_ids
                \/ auth.tenant_id \in p.tenant_ids
        IN  /\ auth.status \in {200, 403}
            /\ auth.status = 200 <=> (permitted /\ tenant_open)

\* a platform_admin without tenant_ids is admitted to a tenant through a
\* required scope it holds
C36_Witness ==
    /\ auth # NoAuth /\ auth.op = "authorize"
    /\ auth.status = 200
    /\ auth.tenant_id = "t1"
    /\ auth.principal.tenant_ids = {}
    /\ auth.required_roles = {"tenant_admin"}
    /\ auth.principal.roles = {"platform_admin"}
    /\ auth.principal.scopes \cap auth.required_scopes # {}

\* the step applies a mark_* of process p to the job it holds
Marks(p) ==
    /\ pc[p] \in {"mark_done", "dl_missing", "handler"}
    /\ pc'[p] # pc[p]

\* C37: a mark_* is applied to a job only by a worker that claimed it; the
\* mark_done or mark_dead_letter an invocation applies in its try block is
\* the only mark_* of the invocation, which returns with it, also when the
\* call raises; and mark_done is never applied to a job that is already done.
C37_OneMarkPerClaim ==
    [][\A p \in Procs :
        /\ Marks(p) => hist[job[p].job_id].claims >= 1
        /\ (Marks(p) /\ pc[p] # "handler") => pc'[p] = "idle"
        /\ (Marks(p) /\ pc[p] = "mark_done") => jobs[job[p].job_id].state # "done"
      ]_vars

\* the slots of key k used in the current minute
SlotsUsed(k) ==
    IF rate_limit_backend = "memory"
    THEN fixed_counter(k, now_window).count
    ELSE IF redis_live(now_window, k) THEN redis[now_window][k].count ELSE 0

\* the same count in the state a step leads to, the clock standing still
SlotsUsedAfter(k) ==
    IF rate_limit_backend = "memory"
    THEN IF counters'[k].window = now_window THEN counters'[k].count ELSE 0
    ELSE IF redis'[now_window][k].expires_at = NoTTL \/ redis'[now_window][k].expires_at > now
         THEN redis'[now_window][k].count ELSE 0

\* C40: a run request that is not answered 200 appends no usage event; one
\* that fails a gate before the rate limit (400, 403, 401, 404, 409) leaves
\* every limiter counter as it was; one that passes the rate limit and fails
\* the monthly quota has used one slot of its key in the current minute; and
\* no request changes the counter of a key that is not its own.
C40_RejectedRunEffects ==
    [][run' # run =>
         LET r == run'.request
             k == run_rate_key(r.tenant_id)
         IN  /\ run'.status # 200 => events' = events
             /\ FirstFailure(r) \in {400, 403, 401, 404, 409}
                   => (counters' = counters /\ redis' = redis)
             /\ (FirstFailure(r) = 429 /\ ~RateDenied(r))
                   => SlotsUsedAfter(k) = SlotsUsed(k) + 1
             /\ \A k2 \in RateKeys \ {k} :
                   /\ counters'[k2] = counters[k2]
                   /\ \A w \in Windows : redis'[w][k2] = redis[w][k2]
      ]_vars

\* C39: neither of a plan PATCH and a worker activation of the same tenant
\* undoes the other's write: the activation stores status active and leaves
\* the stored plan as it is, and the PATCH stores its plan and leaves the
\* stored status as it is, so that the row has the new plan and status
\* active once both have written, whatever the order of their reads and
\* writes.
C39_PlanChangeNotLost ==
    [][\A p \in Procs :
        LET t == tenant[p].tenant_id
        IN  /\ (pc[p] = "activate" /\ pc'[p] = "mark_done")
                  => /\ tenants'[t].status = "active"
                     /\ tenants'[t].plan = tenants[t].plan
            /\ (pc[p] = "patch_write" /\ pc'[p] = "idle")
                  => /\ tenants'[t].plan = req[p]
                     /\ tenants'[t].status = tenants[t].status
      ]_vars

====
